---------------------------- MODULE Spec2Model ----------------------------
(***************************************************************************)
(* A model of the pangenome graph container of PPanGGOLiN                  *)
(* (ppanggolin/pangenome.py): the GeneFamily and Edge objects, the         *)
(* Pangenome registries and the operations addGeneFamily, addEdge,         *)
(* removeFamsFrom, connectedComponents and findCliques, the organism       *)
(* registry, and the Region of ppanggolin/region.py with its border walk.  *)
(*                                                                         *)
(* Objects live in two heaps, fams and edges; a reference is the index of  *)
(* the object in its heap and None is the null reference.  A Python        *)
(* exception ends the operation at the statement that raises it: what the  *)
(* statements before it assigned stays assigned.                           *)
(***************************************************************************)
EXTENDS Integers, Sequences, FiniteSets, TLC

VARIABLES
    fams,        \* heap of GeneFamily objects: [name, ID, removed, _edges]
    edges,       \* heap of Edge objects: [source, target, organisms]
    famGetter,   \* Pangenome._famGetter: family name -> GeneFamily reference
    edgeGetter,  \* Pangenome._edgeGetter: frozenset of families -> Edge reference
    max_fam_id,  \* Pangenome.max_fam_id
    lastCall,    \* the last operation called: [op, args, err, ret]
    pairCalls,   \* history: <<{A, B}, org>> -> number of completed addEdge calls
    nEdgeCalls,  \* history: number of addEdge calls made
    cc,          \* the connectedComponents() generator
    cq,          \* the findCliques() generator
    orgs,        \* heap of Organism objects: [name]
    orgGetter,   \* Pangenome._orgGetter: organism name -> Organism reference
    genome,      \* the contigs: contig name -> [organism, is_circular, genes]
    regions,     \* the Region objects: region name -> [_genes_getter, starter, stopper]
    bw,          \* a get_bordering_genes call in progress
    spot,        \* the Spot: [_region_getter, _uniqOrderedSet, _uniqContent]
    modules,     \* the Module objects: module ID -> _families_getter
    famModules,  \* the modules each GeneFamily object was linked to
    contig_counter,  \* the shared contig counter: [value, lock]
    workers,     \* the worker processes reading annotation files
    gene_families  \* the partitioned families: name -> [named_partition, organisms]

pgVars == <<fams, edges, famGetter, edgeGetter, max_fam_id>>
histVars == <<pairCalls, nEdgeCalls>>
orgVars == <<orgs, orgGetter>>
rgVars == <<genome, regions, bw>>
spotVars == <<spot>>
modVars == <<modules, famModules>>
annVars == <<contig_counter, workers>>
mgVars == <<gene_families>>
otherVars == <<spotVars, modVars, annVars, mgVars>>
\* What the operations on the graph of families leave alone.
restVars == <<rgVars, otherVars>>
vars == <<fams, edges, famGetter, edgeGetter, max_fam_id, lastCall,
          pairCalls, nEdgeCalls, cc, cq, orgs, orgGetter, genome, regions, bw,
          spot, modules, famModules, contig_counter, workers, gene_families>>

----------------------------------------------------------------------------
(* Bounds and inputs *)

MaxFams == 3          \* family names offered to addGeneFamily (SpecFamilies)
MaxEdgeCalls == 2     \* addEdge calls in one behaviour (Spec)
MaxGraphFams == 3     \* families of the graphs given to the traversals
MaxOrgObjs == 3       \* Organism objects made by callers of addOrganism
MaxPosition == 1      \* largest position offered to region[position] = gene
MaxContigLen == 3     \* genes of the contig get_bordering_genes walks
MaxN == 2             \* largest n given to get_bordering_genes
MaxBorderContigLen == 2   \* genes of a contig of a Spot whose borders are asked for
MaxSetSize == 1       \* largest set_size given to Spot.borders
MaxModules == 2       \* Modules constructed in one behaviour
MaxFamOrganisms == 10  \* organisms that hold genes of one family
MaxWorkers == 2       \* worker processes reading annotation files at once
MaxNewContigs == 2    \* contigs one annotation file makes its worker create
MaxInitialCounter == 1  \* value of the contig counter before the files are read
MaxRegionLen == 2     \* genes of a contig whose regions are compared

FamNamePool == <<"famA", "famB", "famC", "famD", "famE", "famF">>
FamNames == {FamNamePool[i] : i \in 1..MaxFams}
\* The families of the graph under construction: two are enough for an edge
\* between distinct families, an edge of a family with itself and a gene
\* without family.
EdgeFamNames == {"famA", "famB"}
Orgs == {"org1", "org2"}

None == 0             \* the null reference; object references are 1, 2, ...

FamRefs == 1..Len(fams)
EdgeRefs == 1..Len(edges)

\* A gene, as addEdge reads it: gene.family (a GeneFamily or None) and
\* gene.organism.  One gene without family is enough: addEdge raises
\* before anything reads its organism.
Genes == [family : FamRefs, organism : Orgs]
             \cup {[family |-> None, organism |-> "org1"]}

\* A call that returned normally and one that raised.
Returned(op, args, ret) == [op |-> op, args |-> args, err |-> "none", ret |-> ret]
Raised(op, args, err) == [op |-> op, args |-> args, err |-> err, ret |-> None]

\* dict[k] = v
DictSet(d, k, v) == [x \in (DOMAIN d) \cup {k} |-> IF x = k THEN v ELSE d[x]]

\* The attributes a class defines; looking up any other raises AttributeError.
GeneFamilyAttrs == {"name", "ID", "_edges", "genes", "removed", "sequence",
                    "addSequence", "addGene", "neighbors", "edges", "organisms"}
EdgeAttrs == {"source", "target", "organisms", "addGenes", "remove"}

----------------------------------------------------------------------------
(* GeneFamily *)

\* GeneFamily.__init__
NewGeneFamily(ID, name) ==
    [name |-> name, ID |-> ID, removed |-> FALSE, _edges |-> <<>>]

\* GeneFamily.neighbors: set(self._edges.keys())
neighbors(f) == DOMAIN fams[f]._edges

\* Pangenome.geneFamilies: set(self._famGetter.values())
geneFamilies == {famGetter[n] : n \in DOMAIN famGetter}

\* Pangenome.edges: set(self._edgeGetter.values())
pangenomeEdges == {edgeGetter[k] : k \in DOMAIN edgeGetter}

----------------------------------------------------------------------------
(* Edge *)

\* Edge.__init__, line 14: self.source._edges[self.target] = self
LinkSource(fs, src, tgt, e) ==
    [fs EXCEPT ![src]._edges = DictSet(@, tgt, e)]

LinkTargetSkipped(fs, src, tgt, e) == fs

\* Edge.__init__, line 15: self.target._edges[self.source] = self
LinkTarget(fs, src, tgt, e) ==
    [fs EXCEPT ![tgt]._edges = DictSet(@, src, e)]

\* Edge.organisms = defaultdict(list): a key is present once a pair was
\* appended under it, so an empty list stands for an absent key.
NoOrganisms == [o \in Orgs |-> <<>>]

addGenesDedup(organisms, sourceGene, targetGene, org) ==
    IF \E i \in 1..Len(organisms[org]) :
           organisms[org][i] = <<sourceGene, targetGene>>
    THEN organisms
    ELSE [organisms EXCEPT ![org] = Append(@, <<sourceGene, targetGene>>)]

\* Edge.addGenes
addGenes(organisms, sourceGene, targetGene, org) ==
    [organisms EXCEPT ![org] = Append(@, <<sourceGene, targetGene>>)]

----------------------------------------------------------------------------
(* Pangenome *)

\* The Pangenome object with the objects it reaches.
ThePangenome ==
    [fams |-> fams, edges |-> edges, famGetter |-> famGetter,
     edgeGetter |-> edgeGetter, max_fam_id |-> max_fam_id]

\* Pangenome.__init__
NewPangenome ==
    [fams |-> <<>>, edges |-> <<>>, famGetter |-> <<>>, edgeGetter |-> <<>>,
     max_fam_id |-> 0]

\* Pangenome.addEdge, line 209: key = frozenset([gene1.family, gene2.family])
EdgeKey(gene1, gene2) == {gene1.family, gene2.family}

\* Pangenome.addEdge with Edge.__init__ inlined: the pangenome after the
\* call, with the error raised (err) and the Edge returned (ret).
PgAddEdge(pg, gene1, gene2, org) ==
    LET key == EdgeKey(gene1, gene2)
        e == Len(pg.edges) + 1
        same == [fams |-> pg.fams, edges |-> pg.edges, edgeGetter |-> pg.edgeGetter]
    IN
    IF key \in DOMAIN pg.edgeGetter
    THEN \* the edge exists: edge.addGenes(gene1, gene2, org)
         [same EXCEPT !.edges = [pg.edges EXCEPT ![pg.edgeGetter[key]].organisms =
                                     addGenes(@, gene1, gene2, org)]]
         @@ [err |-> "none", ret |-> pg.edgeGetter[key]]
    ELSE IF gene1.family = None
    THEN \* line 14: self.source is None, and None has no _edges
         same @@ [err |-> "AttributeError", ret |-> None]
    ELSE IF gene2.family = None
    THEN \* line 14 has run; line 15 raises, None has no _edges, before
         \* line 16 gives the new Edge its organisms
         [same EXCEPT !.fams = LinkSource(pg.fams, gene1.family, None, e),
                      !.edges = Append(pg.edges,
                          [source |-> gene1.family, target |-> None,
                           organisms |-> NoOrganisms])]
         @@ [err |-> "AttributeError", ret |-> None]
    ELSE [fams |-> LinkTarget(LinkSource(pg.fams, gene1.family, gene2.family, e),
                              gene1.family, gene2.family, e),
          edges |-> Append(pg.edges,
                       [source |-> gene1.family, target |-> gene2.family,
                        organisms |-> addGenes(NoOrganisms, gene1, gene2, org)]),
          edgeGetter |-> DictSet(pg.edgeGetter, key, e),
          err |-> "none", ret |-> e]

\* The history of the completed addEdge calls.
CountCall(pc, gene1, gene2, org) ==
    LET k == <<EdgeKey(gene1, gene2), org>>
    IN  DictSet(pc, k, IF k \in DOMAIN pc THEN pc[k] + 1 ELSE 1)

addEdge(gene1, gene2, org) ==
    LET r == PgAddEdge(ThePangenome, gene1, gene2, org)
    IN  /\ nEdgeCalls < MaxEdgeCalls
        /\ nEdgeCalls' = nEdgeCalls + 1
        /\ fams' = r.fams
        /\ edges' = r.edges
        /\ edgeGetter' = r.edgeGetter
        /\ pairCalls' = IF r.err = "none"
                        THEN CountCall(pairCalls, gene1, gene2, org)
                        ELSE pairCalls
        /\ lastCall' = [op |-> "addEdge", args |-> <<gene1, gene2, org>>,
                        err |-> r.err, ret |-> r.ret]
        /\ UNCHANGED <<famGetter, max_fam_id, cc, cq, orgVars, restVars>>

MaxFamIdKept(m) == m

\* Pangenome._createGeneFamily, line 220: self.max_fam_id += 1
NextMaxFamId(m) == m + 1

RegisteredNever(getter, name) == FALSE

\* Pangenome.addGeneFamily: fam = self._famGetter.get(name) is not None
Registered(getter, name) == name \in DOMAIN getter

\* Pangenome.addGeneFamily with _createGeneFamily inlined: the pangenome
\* after the call, with the GeneFamily returned (ret).
PgAddGeneFamily(pg, name) ==
    LET same == [fams |-> pg.fams, famGetter |-> pg.famGetter,
                 max_fam_id |-> pg.max_fam_id]
    IN
    IF Registered(pg.famGetter, name)
    THEN same @@ [ret |-> pg.famGetter[name]]
    ELSE [fams |-> Append(pg.fams, NewGeneFamily(pg.max_fam_id, name)),
          max_fam_id |-> NextMaxFamId(pg.max_fam_id),
          famGetter |-> DictSet(pg.famGetter, name, Len(pg.fams) + 1),
          ret |-> Len(pg.fams) + 1]

addGeneFamily(name) ==
    LET r == PgAddGeneFamily(ThePangenome, name)
    IN  /\ fams' = r.fams
        /\ max_fam_id' = r.max_fam_id
        /\ famGetter' = r.famGetter
        /\ lastCall' = Returned("addGeneFamily", <<name>>, r.ret)
        /\ UNCHANGED <<edges, edgeGetter, pairCalls, nEdgeCalls, cc, cq, orgVars, restVars>>

\* Pangenome.removeFamsFrom.  The inner loop is "for edge in fams:
\* edge.remove()": it walks the families again, and a GeneFamily has no
\* remove, so the first pass of a non-empty fams raises before anything
\* is detached or deleted.
removeFamsFrom(fs) ==
    /\ UNCHANGED <<edges, edgeGetter, max_fam_id, pairCalls, nEdgeCalls, cc, cq, orgVars, restVars>>
    /\ IF fs # {} /\ "remove" \notin GeneFamilyAttrs
       THEN /\ UNCHANGED <<fams, famGetter>>
            /\ lastCall' = Raised("removeFamsFrom", <<fs>>, "AttributeError")
       ELSE \* no pass of the loop body: the size check holds
            /\ UNCHANGED <<fams, famGetter>>
            /\ lastCall' = Returned("removeFamsFrom", <<fs>>, None)

\* Edge.remove: self.source._edges[self.target] is an Edge (the neighbor
\* map holds one Edge per neighbor, not a set) and an Edge has no discard.
EdgeRemove(e) ==
    /\ UNCHANGED <<pgVars, histVars, cc, cq, orgVars, restVars>>
    /\ lastCall' =
         IF edges[e].target \notin DOMAIN fams[edges[e].source]._edges
         THEN Raised("Edge.remove", <<e>>, "KeyError")
         ELSE IF "discard" \notin EdgeAttrs
         THEN Raised("Edge.remove", <<e>>, "AttributeError")
         ELSE Returned("Edge.remove", <<e>>, None)

----------------------------------------------------------------------------
(* The organism registry *)

OrgRefs == 1..Len(orgs)

\* The registry with the Organism objects.
TheOrganisms == [orgs |-> orgs, orgGetter |-> orgGetter]

\* Organism(name)
NewOrganism(name) == [name |-> name]

RedundantNever(oldLen, getter) == FALSE

\* Pangenome.addOrganism, line 193: len(self._orgGetter) == oldLen
Redundant(oldLen, getter) == Cardinality(DOMAIN getter) = oldLen

\* Pangenome.addOrganism(newOrg): line 192 stores newOrg under its name,
\* then line 193 compares the sizes and raises KeyError.
PgAddOrganism(og, newOrg) ==
    LET oldLen == Cardinality(DOMAIN og.orgGetter)
        getter == DictSet(og.orgGetter, og.orgs[newOrg].name, newOrg)
    IN  [orgs |-> og.orgs, orgGetter |-> getter,
         err |-> IF Redundant(oldLen, getter) THEN "KeyError" ELSE "none",
         ret |-> IF Redundant(oldLen, getter) THEN None ELSE newOrg]

\* Pangenome.getOrganism(name)
PgGetOrganism(og, name) ==
    IF name \in DOMAIN og.orgGetter
    THEN [orgs |-> og.orgs, orgGetter |-> og.orgGetter,
          err |-> "none", ret |-> og.orgGetter[name]]
    ELSE LET made == [og EXCEPT !.orgs = Append(@, NewOrganism(name))]
             r == PgAddOrganism(made, Len(made.orgs))
         IN  [r EXCEPT !.ret = IF r.err = "none" THEN Len(made.orgs) ELSE None]

getOrganism(name) ==
    LET r == PgGetOrganism(TheOrganisms, name)
    IN  /\ orgs' = r.orgs
        /\ orgGetter' = r.orgGetter
        /\ lastCall' = [op |-> "getOrganism", args |-> <<name>>,
                        err |-> r.err, ret |-> r.ret]
        /\ UNCHANGED <<pgVars, histVars, cc, cq, restVars>>

\* addOrganism(org) with an Organism the caller holds already.
addOrganism(newOrg) ==
    LET r == PgAddOrganism(TheOrganisms, newOrg)
    IN  /\ orgs' = r.orgs
        /\ orgGetter' = r.orgGetter
        /\ lastCall' = [op |-> "addOrganism", args |-> <<newOrg>>,
                        err |-> r.err, ret |-> r.ret]
        /\ UNCHANGED <<pgVars, histVars, cc, cq, restVars>>

\* addOrganism(Organism(name)): the caller makes a new Organism and adds it.
addNewOrganism(name) ==
    LET made == [orgs |-> Append(orgs, NewOrganism(name)), orgGetter |-> orgGetter]
        r == PgAddOrganism(made, Len(made.orgs))
    IN  /\ Len(orgs) < MaxOrgObjs
        /\ orgs' = r.orgs
        /\ orgGetter' = r.orgGetter
        /\ lastCall' = [op |-> "addOrganism", args |-> <<Len(made.orgs)>>,
                        err |-> r.err, ret |-> r.ret]
        /\ UNCHANGED <<pgVars, histVars, cc, cq, restVars>>

----------------------------------------------------------------------------
(* connectedComponents *)

\* Pangenome._plain_bfs, consumed by set(): the families reached from
\* source, level by level.  A None key in a neighbor map is reached like
\* any neighbor, and reading None.neighbors raises AttributeError.
RECURSIVE BfsLevels(_, _)
BfsLevels(seen, nextlevel) ==
    LET new == nextlevel \ seen
    IN  IF new = {}
        THEN [err |-> "none", out |-> seen]
        ELSE IF None \in new
        THEN [err |-> "AttributeError", out |-> {}]
        ELSE BfsLevels(seen \cup new, UNION {neighbors(v) : v \in new})

_plain_bfs(source) == BfsLevels({}, {source})

\* _famGetter is keyed by family name, a str; an int never equals a str,
\* so no ID is a key of it.
IsFamilyName(famID) == FALSE

\* Pangenome.subgraph(famSet), from the graph the variables hold.  famIds
\* are the IDs the new pangenome g gives the families, 0 .. len(famSet)-1;
\* line 175 then looks each ID up in self._famGetter (KeyError), and line
\* 177 assigns to neighbors, a property without setter (AttributeError).
\* The value returned is g: its families, by name, and no edge.
subgraph(famSet) ==
    LET famIds == 0..(Cardinality(famSet) - 1)
    IN  IF \E famID \in famIds : ~IsFamilyName(famID)
        THEN [err |-> "KeyError", names |-> {}]
        ELSE IF famIds # {}
        THEN [err |-> "AttributeError", names |-> {}]
        ELSE [err |-> "none", names |-> {fams[f].name : f \in famSet}]

\* connectedComponents(): the generator is created; nothing runs yet.
ccCall ==
    /\ cc.state = "idle"
    /\ cc' = [state |-> "running", seen |-> {}, yielded |-> <<>>, err |-> "none"]
    /\ lastCall' = Returned("connectedComponents", <<>>, None)
    /\ UNCHANGED <<pgVars, histVars, cq, orgVars, restVars>>

\* next() on the generator: the loop of lines 239-243 up to its next yield.
\* The families come in the order of a set, so the next unseen one is any
\* unseen one.
ccNext ==
    /\ cc.state = "running"
    /\ UNCHANGED <<pgVars, histVars, cq, orgVars, restVars>>
    /\ IF geneFamilies \subseteq cc.seen
       THEN /\ cc' = [cc EXCEPT !.state = "done"]
            /\ lastCall' = Raised("next", <<>>, "StopIteration")
       ELSE \E v \in geneFamilies \ cc.seen :
               LET c == _plain_bfs(v)
                   g == subgraph(c.out)
               IN  IF c.err # "none"
                   THEN /\ cc' = [cc EXCEPT !.state = "raised", !.err = c.err]
                        /\ lastCall' = Raised("next", <<>>, c.err)
                   ELSE IF g.err # "none"
                   THEN /\ cc' = [cc EXCEPT !.state = "raised", !.err = g.err]
                        /\ lastCall' = Raised("next", <<>>, g.err)
                   ELSE /\ cc' = [cc EXCEPT !.yielded = Append(@, g.names),
                                            !.seen = @ \cup c.out]
                        /\ lastCall' = Returned("next", <<>>, g.names)

----------------------------------------------------------------------------
(* findCliques *)

\* max(subg, key=lambda u: len(cand & u.neighbors)): max returns the first
\* maximum of the set's iteration order, any of the maxima.
Pivots(subg, cand) ==
    {u \in subg : \A w \in subg :
        Cardinality(cand \cap neighbors(w)) <= Cardinality(cand \cap neighbors(u))}

RestrictCandKept(subg, cand, q) ==
    [subg_q |-> subg \cap neighbors(q), cand_q |-> cand]

RestrictSubgFromCand(subg, cand, q) ==
    [subg_q |-> cand \cap neighbors(q), cand_q |-> cand \cap neighbors(q)]

\* lines 281-286: adj_q = q.neighbors; subg_q = subg & adj_q;
\* cand_q = cand & adj_q
Restrict(subg, cand, q) ==
    [subg_q |-> subg \cap neighbors(q), cand_q |-> cand \cap neighbors(q)]

\* Q[-1] = q
SetLast(Q, q) == [Q EXCEPT ![Len(Q)] = q]
\* Q.pop(), stack.pop()
Front(s) == SubSeq(s, 1, Len(s) - 1)

\* findCliques(fams): the prelude, lines 262-273.
cqCall(famsArg) ==
    /\ cq.state = "idle"
    /\ UNCHANGED <<pgVars, histVars, cc, orgVars, restVars>>
    /\ lastCall' = Returned("findCliques", <<famsArg>>, None)
    /\ LET searched == IF Cardinality(famsArg) = 0 THEN geneFamilies ELSE famsArg
       IN  IF Cardinality(searched) = 0
           THEN cq' = [state |-> "done", arg |-> famsArg, Q |-> <<>>,
                       subg |-> {}, cand |-> {}, ext_u |-> {},
                       stack |-> <<>>, yielded |-> <<>>]
           ELSE \E u \in Pivots(searched, searched) :
                    cq' = [state |-> "running", arg |-> famsArg, Q |-> <<None>>,
                           subg |-> searched, cand |-> searched,
                           ext_u |-> searched \ neighbors(u),
                           stack |-> <<>>, yielded |-> <<>>]

\* One pass of the while loop, lines 277-297.
cqStep ==
    /\ cq.state = "running"
    /\ UNCHANGED <<pgVars, histVars, cc, lastCall, orgVars, restVars>>
    /\ IF cq.ext_u # {}
       THEN \E q \in cq.ext_u :
               LET ext_u == cq.ext_u \ {q}
                   cand == cq.cand \ {q}
                   Q == SetLast(cq.Q, q)
                   r == Restrict(cq.subg, cand, q)
               IN  IF r.subg_q = {}
                   THEN cq' = [cq EXCEPT !.ext_u = ext_u, !.cand = cand, !.Q = Q,
                                         !.yielded = Append(@, Q)]
                   ELSE IF r.cand_q # {}
                   THEN \E u \in Pivots(r.subg_q, r.cand_q) :
                            cq' = [cq EXCEPT
                                     !.stack = Append(@, <<cq.subg, cand, ext_u>>),
                                     !.Q = Append(Q, None),
                                     !.subg = r.subg_q,
                                     !.cand = r.cand_q,
                                     !.ext_u = r.cand_q \ neighbors(u)]
                   ELSE cq' = [cq EXCEPT !.ext_u = ext_u, !.cand = cand, !.Q = Q]
       ELSE IF cq.stack = <<>>
       THEN \* stack.pop() raises IndexError: the generator ends
            cq' = [cq EXCEPT !.state = "done", !.Q = Front(@)]
       ELSE LET top == cq.stack[Len(cq.stack)]
            IN  cq' = [cq EXCEPT !.Q = Front(@), !.stack = Front(@),
                                 !.subg = top[1], !.cand = top[2],
                                 !.ext_u = top[3]]

----------------------------------------------------------------------------
(* Region: the genes it reads *)

\* A Gene is referred to by its contig and its position on it; contig[i] is
\* the gene of position i.  gene.family, gene.organism and gene.RGP are read
\* from the genome.
NoGene == [contig |-> "None", position |-> 0]
\* A feature that is not a Gene (an RNA): isinstance(gene, Gene) is False.
NotAGene == [contig |-> "RNA", position |-> 0]

GeneRefs == UNION {{[contig |-> c, position |-> p - 1] :
                       p \in 1..Len(genome[c].genes)} : c \in DOMAIN genome}

IsGene(gene) == gene \in GeneRefs

\* len(contig)
ContigLen(c) == Len(genome[c].genes)

\* contig[i], a Python list lookup: a negative index counts from the end.
ContigGet(c, i) ==
    [contig |-> c, position |-> IF i < 0 THEN ContigLen(c) + i ELSE i]

GeneFamilyOf(gene) == genome[gene.contig].genes[gene.position + 1].family
GeneOrganismOf(gene) == genome[gene.contig].organism

\* gene.RGP = region
SetRGP(gm, gene, r) ==
    [gm EXCEPT ![gene.contig].genes[gene.position + 1].RGP = r]

----------------------------------------------------------------------------
(* Region *)

RegionNames == DOMAIN regions

\* Region.__init__(name)
NewRegion == [getter |-> <<>>, score |-> 0, starter |-> NoGene, stopper |-> NoGene]

\* Region.__len__
RgLen(rg) == Cardinality(DOMAIN rg.getter)

Min(S) == CHOOSE x \in S : \A y \in S : x <= y
Max(S) == CHOOSE x \in S : \A y \in S : x >= y

\* Region.organism and Region.contig: those of the starter gene.
RgOrganism(rg) == GeneOrganismOf(rg.starter)
RgContig(rg) == rg.starter.contig

\* Region.__setitem__, line 84: gene.organism != self.organism
OtherOrganism(gene, rg) == GeneOrganismOf(gene) # RgOrganism(rg)

OtherContigNever(gene, rg) == FALSE

\* Region.__setitem__, line 86: gene.contig != self.contig
OtherContig(gene, rg) == gene.contig # RgContig(rg)

\* Region.__setitem__(position, gene): the region after the call and the
\* exception raised ("none" when the gene was stored).
RgSetItem(rg, position, gene) ==
    IF ~IsGene(gene) THEN [rg |-> rg, err |-> "TypeError"]
    ELSE IF RgLen(rg) > 0 /\ OtherOrganism(gene, rg)
    THEN [rg |-> rg, err |-> "Exception"]
    ELSE IF RgLen(rg) > 0 /\ OtherContig(gene, rg)
    THEN [rg |-> rg, err |-> "Exception"]
    ELSE IF position \in DOMAIN rg.getter /\ rg.getter[position] # gene
    THEN [rg |-> rg, err |-> "ValueError"]
    ELSE LET getter == DictSet(rg.getter, position, gene)
         IN  [rg |-> [rg EXCEPT !.getter = getter,
                                !.starter = getter[Min(DOMAIN getter)],
                                !.stopper = getter[Max(DOMAIN getter)]],
              err |-> "none"]

\* region[position] = gene
setitem(r, position, gene) ==
    LET res == RgSetItem(regions[r], position, gene)
    IN  /\ regions' = [regions EXCEPT ![r] = res.rg]
        /\ genome' = IF res.err = "none" THEN SetRGP(genome, gene, r) ELSE genome
        /\ lastCall' = [op |-> "setitem", args |-> <<r, position, gene>>,
                        err |-> res.err, ret |-> None]
        /\ UNCHANGED <<pgVars, histVars, cc, cq, orgVars, otherVars, bw>>

\* Region.__delitem__(position): del self._genes_getter[position]
RgDelItem(rg, position) ==
    IF position \in DOMAIN rg.getter
    THEN [rg |-> [rg EXCEPT !.getter =
                     [k \in (DOMAIN rg.getter) \ {position} |-> rg.getter[k]]],
          err |-> "none"]
    ELSE [rg |-> rg, err |-> "KeyError"]

\* del region[position]
delitem(r, position) ==
    LET res == RgDelItem(regions[r], position)
    IN  /\ regions' = [regions EXCEPT ![r] = res.rg]
        /\ lastCall' = [op |-> "delitem", args |-> <<r, position>>,
                        err |-> res.err, ret |-> None]
        /\ UNCHANGED <<pgVars, histVars, cc, cq, orgVars, otherVars, genome, bw>>

\* Region.is_whole_contig: reading starter.position of a region that never
\* held a gene raises AttributeError (starter is None).
RgIsWholeContig(rg) ==
    IF rg.starter = NoGene \/ rg.stopper = NoGene
    THEN [err |-> "AttributeError", ret |-> None]
    ELSE [err |-> "none",
          ret |-> /\ rg.starter.position = 0
                  /\ rg.stopper.position = ContigLen(RgContig(rg)) - 1]

is_whole_contig(r) ==
    LET res == RgIsWholeContig(regions[r])
    IN  /\ lastCall' = [op |-> "is_whole_contig", args |-> <<r>>,
                        err |-> res.err, ret |-> res.ret]
        /\ UNCHANGED <<pgVars, histVars, cc, cq, orgVars, otherVars, rgVars>>

LinearContigAlways(rg) == TRUE

\* Region.is_contig_border, line 168: not self.contig.is_circular
LinearContig(rg) == ~genome[RgContig(rg)].is_circular

\* Region.is_contig_border
RgIsContigBorder(rg) ==
    IF RgLen(rg) = 0 THEN [err |-> "Exception", ret |-> None]
    ELSE LET positions == {g.position : g \in {ContigGet(RgContig(rg), i) :
                                          i \in 0..(ContigLen(RgContig(rg)) - 1)}}
             min_pos == Min(positions)
             max_pos == Max(positions)
         IN  [err |-> "none",
              ret |-> /\ LinearContig(rg)
                      /\ \/ rg.starter.position = min_pos
                         \/ rg.stopper.position = max_pos]

is_contig_border(r) ==
    LET res == RgIsContigBorder(regions[r])
    IN  /\ lastCall' = [op |-> "is_contig_border", args |-> <<r>>,
                        err |-> res.err, ret |-> res.ret]
        /\ UNCHANGED <<pgVars, histVars, cc, cq, orgVars, otherVars, rgVars>>

\* Region.genes: sorted(self._genes_getter.values(), key=lambda x: x.position).
\* Genes of equal position in one region are the same gene, so the order
\* among them is immaterial.
RECURSIVE GenesSorted(_, _)
GenesSorted(getter, keys) ==
    IF keys = {} THEN <<>>
    ELSE LET k == CHOOSE k \in keys :
                     \A j \in keys : getter[k].position <= getter[j].position
         IN  <<getter[k]>> \o GenesSorted(getter, keys \ {k})

RgGenes(rg) == GenesSorted(rg.getter, DOMAIN rg.getter)

\* [gene.family for gene in region.genes]
RgFamilySeq(rg) ==
    [i \in 1..RgLen(rg) |-> GeneFamilyOf(RgGenes(rg)[i])]

\* list[::-1]
Reverse(s) == [i \in 1..Len(s) |-> s[Len(s) + 1 - i]]

ReversedMatchNever(rg, other) == FALSE

\* Region.__eq__, line 71: the families against those of other.genes[::-1]
ReversedMatch(rg, other) == RgFamilySeq(rg) = Reverse(RgFamilySeq(other))

\* Region.__eq__(other); other is the name of a Region or something else.
RgEq(r, other) ==
    IF other \notin RegionNames THEN [err |-> "TypeError", ret |-> None]
    ELSE [err |-> "none",
          ret |-> \/ RgFamilySeq(regions[r]) = RgFamilySeq(regions[other])
                  \/ ReversedMatch(regions[r], regions[other])]

\* region == other
eq(r, other) ==
    /\ lastCall' = [op |-> "eq", args |-> <<r, other>>,
                    err |-> RgEq(r, other).err, ret |-> RgEq(r, other).ret]
    /\ UNCHANGED <<pgVars, histVars, cc, cq, orgVars, otherVars, rgVars>>

----------------------------------------------------------------------------
(* Region.get_bordering_genes *)

\* family.named_partition of the two families of the contigs.
named_partition == [famP |-> "persistent", famS |-> "shell"]

WantedOneMore(border, n) == Len(border) <= n

\* lines 185 and 203: len(border[i]) < n
Wanted(border, n) == Len(border) < n

LoopedAroundNever(pos, init) == FALSE

\* lines 197 and 215: if pos == init: break
LoopedAround(pos, init) == pos = init

\* line 193: the test a gene passes to enter the upstream border
UpstreamBorderGene(gene, multigenics) ==
    /\ gene # NoGene
    /\ GeneFamilyOf(gene) \notin multigenics
    /\ named_partition[GeneFamilyOf(gene)] = "persistent"

\* line 211: the test a gene passes to enter the downstream border
DownstreamBorderGene(gene, multigenics) ==
    /\ gene # NoGene
    /\ GeneFamilyOf(gene) \notin multigenics

\* The call begins: lines 182-184.  Reading starter.position of a region
\* that never held a gene raises AttributeError.
get_bordering_genes(r, n, multigenics) ==
    /\ bw.pc = "idle"
    /\ IF regions[r].starter = NoGene
       THEN /\ lastCall' = Raised("get_bordering_genes", <<r, n, multigenics>>,
                                  "AttributeError")
            /\ bw' = bw
       ELSE /\ bw' = [pc |-> "up", rgp |-> r, n |-> n, multigenics |-> multigenics,
                      border |-> <<<<>>, <<>>>>,
                      pos |-> regions[r].starter.position,
                      init |-> regions[r].starter.position]
            /\ lastCall' = lastCall
    /\ UNCHANGED <<pgVars, histVars, cc, cq, orgVars, otherVars, genome, regions>>

\* The state in which the second loop begins: lines 199-200.
DownstreamBegins(w, border) ==
    [w EXCEPT !.pc = "down", !.border = border,
              !.pos = regions[w.rgp].stopper.position,
              !.init = regions[w.rgp].stopper.position]

\* One evaluation of the test of the first loop and, when it holds, one
\* pass through its body: lines 185-198.  w is the call's frame.
UpNext(w) ==
    LET contig == RgContig(regions[w.rgp])
        circular == genome[contig].is_circular
        curr_gene == IF w.pos = 0
                     THEN IF circular THEN ContigGet(contig, w.pos - 1) ELSE NoGene
                     ELSE ContigGet(contig, w.pos - 1)
        up == IF UpstreamBorderGene(curr_gene, w.multigenics)
              THEN Append(w.border[1], curr_gene) ELSE w.border[1]
        pos == IF w.pos - 1 = -1 /\ circular THEN ContigLen(contig) ELSE w.pos - 1
    IN  IF Wanted(w.border[1], w.n) /\ (w.pos # 0 \/ circular)
        THEN IF LoopedAround(pos, w.init)
             THEN DownstreamBegins(w, <<up, w.border[2]>>)
             ELSE [w EXCEPT !.border = <<up, w.border[2]>>, !.pos = pos]
        ELSE DownstreamBegins(w, w.border)

upStep ==
    /\ bw.pc = "up"
    /\ bw' = UpNext(bw)
    /\ UNCHANGED <<pgVars, histVars, cc, cq, orgVars, otherVars, genome, regions, lastCall>>

\* The same for the second loop, lines 201-216; leaving it returns border.
DownNext(w) ==
    LET contig == RgContig(regions[w.rgp])
        circular == genome[contig].is_circular
        last == ContigLen(contig) - 1
        curr_gene == IF w.pos = last
                     THEN IF circular THEN ContigGet(contig, 0) ELSE NoGene
                     ELSE ContigGet(contig, w.pos + 1)
        down == IF DownstreamBorderGene(curr_gene, w.multigenics)
                THEN Append(w.border[2], curr_gene) ELSE w.border[2]
        pos == IF w.pos + 1 = ContigLen(contig) /\ circular THEN -1 ELSE w.pos + 1
        goesOn == /\ Wanted(w.border[2], w.n) /\ (w.pos # last \/ circular)
                  /\ ~LoopedAround(pos, w.init)
        border == IF Wanted(w.border[2], w.n) /\ (w.pos # last \/ circular)
                  THEN <<w.border[1], down>> ELSE w.border
    IN  IF goesOn
        THEN [w EXCEPT !.border = border, !.pos = pos]
        ELSE [w EXCEPT !.border = border, !.pc = "done"]

downStep ==
    /\ bw.pc = "down"
    /\ bw' = DownNext(bw)
    /\ lastCall' = IF DownNext(bw).pc = "done"
                   THEN Returned("get_bordering_genes",
                                 <<bw.rgp, bw.n, bw.multigenics>>, DownNext(bw).border)
                   ELSE lastCall
    /\ UNCHANGED <<pgVars, histVars, cc, cq, orgVars, otherVars, genome, regions>>

----------------------------------------------------------------------------
(* Spot *)

\* name in self._region_getter, self._region_getter[name]
SpotNames(sp) == {sp.getter[i].name : i \in 1..Len(sp.getter)}
SpotGet(sp, name) ==
    sp.getter[CHOOSE i \in 1..Len(sp.getter) : sp.getter[i].name = name].region

\* Spot.regions: the values of _region_getter, in its order
SpotRegions(sp) == [i \in 1..Len(sp.getter) |-> sp.getter[i].region]

\* self._region_getter[name] = region: a known key keeps its place.
SpotPut(sp, name, region) ==
    IF name \in SpotNames(sp)
    THEN [i \in 1..Len(sp.getter) |->
             IF sp.getter[i].name = name
             THEN [name |-> name, region |-> region] ELSE sp.getter[i]]
    ELSE Append(sp.getter, [name |-> name, region |-> region])

\* Spot.__setitem__, line 258: self[name] != region.  Region defines __eq__
\* and no __ne__, so != is the negation of Region.__eq__.
DifferentRegion(sp, name, region) == ~RgEq(SpotGet(sp, name), region).ret

\* Spot.__setitem__(name, region)
SpSetItem(sp, name, region) ==
    IF region \notin RegionNames THEN [sp |-> sp, err |-> "TypeError"]
    ELSE IF name \in SpotNames(sp) /\ DifferentRegion(sp, name, region)
    THEN [sp |-> sp, err |-> "KeyError"]
    ELSE [sp |-> [sp EXCEPT !.getter = SpotPut(sp, name, region)], err |-> "none"]

spot_setitem(name, region) ==
    LET res == SpSetItem(spot, name, region)
    IN  /\ spot' = res.sp
        /\ lastCall' = [op |-> "spot_setitem", args |-> <<name, region>>,
                        err |-> res.err, ret |-> None]
        /\ UNCHANGED <<pgVars, histVars, cc, cq, orgVars, rgVars, modVars, annVars, mgVars>>

\* Spot.__delitem__(name): del self._region_getter[name]
SpDelItem(sp, name) ==
    IF name \in SpotNames(sp)
    THEN [sp |-> [sp EXCEPT !.getter = SelectSeq(sp.getter, LAMBDA it : it.name # name)],
          err |-> "none"]
    ELSE [sp |-> sp, err |-> "KeyError"]

spot_delitem(name) ==
    LET res == SpDelItem(spot, name)
    IN  /\ spot' = res.sp
        /\ lastCall' = [op |-> "spot_delitem", args |-> <<name>>,
                        err |-> res.err, ret |-> None]
        /\ UNCHANGED <<pgVars, histVars, cc, cq, orgVars, rgVars, modVars, annVars, mgVars>>

SameSyntenyForward(rgp, seen_rgp) ==
    RgFamilySeq(regions[rgp]) = RgFamilySeq(regions[seen_rgp])

\* line 333: rgp == seen_rgp
SameSynteny(rgp, seen_rgp) == RgEq(rgp, seen_rgp).ret

\* line 367: rgp.families == seen_rgp.families.  Region.families is a
\* generator function (lines 112-119): each read makes a new generator
\* object, and two generator objects compare by identity.
SameContent(rgp, seen_rgp) == FALSE

\* The test of the inner loop of _mk_uniq_ordered_set_obj (which "ordered")
\* and of _mk_uniq_content (which "content").
Same(which, rgp, seen_rgp) ==
    IF which = "ordered" THEN SameSynteny(rgp, seen_rgp)
    ELSE SameContent(rgp, seen_rgp)

\* One pass of the outer loop of the two: rgp joins the members of every
\* seen representative it matches and, when it matched none, becomes a
\* representative itself.
Grouped(cache, rgp, which) ==
    LET joined == [j \in 1..Len(cache) |->
                      IF Same(which, rgp, cache[j].rep)
                      THEN [cache[j] EXCEPT !.members = @ \cup {rgp}]
                      ELSE cache[j]]
        z == \A j \in 1..Len(cache) : ~Same(which, rgp, cache[j].rep)
    IN  IF z THEN Append(joined, [rep |-> rgp, members |-> {rgp}]) ELSE joined

RECURSIVE GroupedAll(_, _, _, _)
GroupedAll(cache, rgps, n, which) ==
    IF n = 0 THEN cache
    ELSE Grouped(GroupedAll(cache, rgps, n - 1, which), rgps[n], which)

\* Spot._mk_uniq_ordered_set_obj and Spot._mk_uniq_content
MkUniqOrderedSet(sp) ==
    GroupedAll(sp.uniqOrderedSet, SpotRegions(sp), Len(sp.getter), "ordered")
MkUniqContent(sp) ==
    GroupedAll(sp.uniqContent, SpotRegions(sp), Len(sp.getter), "content")

NeverComputed(cache) == Len(cache) = 0

\* Spot._get_ordered_set and Spot._get_content: the spot after the call;
\* the cache it holds is what the call returns.
SpGetOrderedSet(sp) ==
    [sp EXCEPT !.uniqOrderedSet = IF NeverComputed(@) THEN MkUniqOrderedSet(sp) ELSE @,
               !.queried = @ \cup {"ordered"}]
SpGetContent(sp) ==
    [sp EXCEPT !.uniqContent = IF NeverComputed(@) THEN MkUniqContent(sp) ELSE @,
               !.queried = @ \cup {"content"}]

\* What the callers get of a cache: its keys, the dict itself, its counts.
Keys(cache) == {cache[j].rep : j \in 1..Len(cache)}
AsDict(cache) == [r \in Keys(cache) |->
                    (CHOOSE j \in 1..Len(cache) : cache[j].rep = r)]
Counts(cache) == [r \in Keys(cache) |-> Cardinality(cache[AsDict(cache)[r]].members)]
ToRgp(cache) == [r \in Keys(cache) |-> cache[AsDict(cache)[r]].members]

SpotQuery(op, sp, ret) ==
    /\ spot' = sp
    /\ lastCall' = Returned(op, <<>>, ret)
    /\ UNCHANGED <<pgVars, histVars, cc, cq, orgVars, rgVars, modVars, annVars, mgVars>>

get_uniq_ordered_set ==
    SpotQuery("get_uniq_ordered_set", SpGetOrderedSet(spot),
              Keys(SpGetOrderedSet(spot).uniqOrderedSet))
get_uniq_to_rgp ==
    SpotQuery("get_uniq_to_rgp", SpGetOrderedSet(spot),
              ToRgp(SpGetOrderedSet(spot).uniqOrderedSet))
count_uniq_ordered_set ==
    SpotQuery("count_uniq_ordered_set", SpGetOrderedSet(spot),
              Counts(SpGetOrderedSet(spot).uniqOrderedSet))
get_uniq_content ==
    SpotQuery("get_uniq_content", SpGetContent(spot),
              Keys(SpGetContent(spot).uniqContent))
count_uniq_content ==
    SpotQuery("count_uniq_content", SpGetContent(spot),
              Counts(SpGetContent(spot).uniqContent))

----------------------------------------------------------------------------
(* Spot.borders *)

\* rgp.get_bordering_genes(set_size, multigenics), run to its return: the
\* frame after the two loops.
RECURSIVE Walked(_)
Walked(w) ==
    IF w.pc = "done" THEN w
    ELSE IF w.pc = "up" THEN Walked(UpNext(w))
    ELSE Walked(DownNext(w))

BorderingGenes(r, n, multigenics) ==
    Walked([pc |-> "up", rgp |-> r, n |-> n, multigenics |-> multigenics,
            border |-> <<<<>>, <<>>>>,
            pos |-> regions[r].starter.position,
            init |-> regions[r].starter.position]).border

\* line 318: the families of the genes of the two borders
FamiliesOf(genes) == [i \in 1..Len(genes) |-> GeneFamilyOf(genes[i])]
CurrSet(borders) == <<FamiliesOf(borders[1]), FamiliesOf(borders[2])>>

SameBordersForward(former_borders, curr_set) == former_borders = curr_set

\* line 320: former_borders == curr_set or former_borders == curr_set[::-1]
SameBorders(former_borders, curr_set) ==
    \/ former_borders = curr_set
    \/ former_borders = Reverse(curr_set)

\* One pass of the loop of lines 316-325: the first entry whose borders
\* match curr_set counts one more; without such an entry a new one is
\* appended.
Counted(family_borders, curr_set) ==
    LET hits == {i \in 1..Len(family_borders) :
                    SameBorders(family_borders[i].borders, curr_set)}
    IN  IF hits = {}
        THEN Append(family_borders, [count |-> 1, borders |-> curr_set])
        ELSE [family_borders EXCEPT ![Min(hits)].count = @ + 1]

RECURSIVE CountedAll(_, _)
CountedAll(all_borders, k) ==
    IF k = 0 THEN <<>>
    ELSE Counted(CountedAll(all_borders, k - 1), CurrSet(all_borders[k]))

\* Spot.borders(set_size, multigenics).  A region that never held a gene
\* makes get_bordering_genes raise AttributeError (line 183).
SpBorders(sp, set_size, multigenics) ==
    IF \E i \in 1..Len(sp.getter) : regions[SpotRegions(sp)[i]].starter = NoGene
    THEN [err |-> "AttributeError", ret |-> None]
    ELSE LET all_borders == [i \in 1..Len(sp.getter) |->
                                BorderingGenes(SpotRegions(sp)[i], set_size, multigenics)]
         IN  [err |-> "none", ret |-> CountedAll(all_borders, Len(all_borders))]

borders(set_size, multigenics) ==
    /\ LET res == SpBorders(spot, set_size, multigenics)
       IN  lastCall' = [op |-> "borders", args |-> <<set_size, multigenics>>,
                        err |-> res.err, ret |-> res.ret]
    /\ UNCHANGED <<pgVars, histVars, cc, cq, orgVars, rgVars, otherVars>>

----------------------------------------------------------------------------
(* Module *)

\* The GeneFamily objects given to Modules, and their names: fam1 and fam2
\* are two objects of one name.
ModFams == {"fam1", "fam2", "fam3"}
ModFamName == [fam1 |-> "famA", fam2 |-> "famA", fam3 |-> "famB"]
ModNames == {"famA", "famB"}
ModRefs == 1..Len(modules)

\* GeneFamily.add_module(module): the family records the module among its
\* modules.
AddModule(links, family, m) == [links EXCEPT ![family] = @ \cup {m}]

\* self[name] != family, line 456: two GeneFamily objects differ.
DifferentFamily(md, name, family) == md.getter[name] # family

LinkedBackNever(links, family, m) == links

\* line 460: family.add_module(self)
LinkedBack(links, family, m) == AddModule(links, family, m)

\* Module.__setitem__(name, family) on the module m of the heap mods, with
\* links the modules each family records.
MdSetItem(mods, links, m, name, family) ==
    IF family \notin ModFams
    THEN [mods |-> mods, links |-> links, err |-> "TypeError"]
    ELSE IF name \in DOMAIN mods[m].getter /\ DifferentFamily(mods[m], name, family)
    THEN [mods |-> mods, links |-> links, err |-> "KeyError"]
    ELSE [mods |-> [mods EXCEPT ![m].getter =
                       [n \in DOMAIN @ \cup {name} |->
                           IF n = name THEN family ELSE @[n]]],
          links |-> LinkedBack(links, family, m),
          err |-> "none"]

module_setitem(m, name, family) ==
    LET res == MdSetItem(modules, famModules, m, name, family)
    IN  /\ modules' = res.mods
        /\ famModules' = res.links
        /\ lastCall' = [op |-> "module_setitem", args |-> <<m, name, family>>,
                        err |-> res.err, ret |-> None]
        /\ UNCHANGED <<pgVars, histVars, cc, cq, orgVars, rgVars, spotVars, annVars, mgVars>>

\* The loop of Module.__init__, lines 429-431, over the families in the
\* order the set gives them: an exception of self[family.name] = family
\* ends it, and what the earlier passes did stays.
RECURSIVE MdFilled(_, _, _, _, _)
MdFilled(mods, links, m, order, n) ==
    IF n = 0 THEN [mods |-> mods, links |-> links, err |-> "none"]
    ELSE LET before == MdFilled(mods, links, m, order, n - 1)
         IN  IF before.err # "none" THEN before
             ELSE MdSetItem(before.mods, before.links, m,
                            ModFamName[order[n]], order[n])

\* A module_id that is not an int; the identifiers callers give are 0, 1, ...
NotAnInt == -1

\* Module(module_id, families): families come in the order `order`.
Module(module_id, order) ==
    /\ Len(modules) < MaxModules
    /\ IF module_id = NotAnInt
       THEN /\ lastCall' = Raised("Module", <<module_id, order>>, "TypeError")
            /\ UNCHANGED modVars
       ELSE LET m == Len(modules) + 1
                created == Append(modules, [ID |-> module_id, getter |-> <<>>,
                                            bitarray |-> None])
                res == MdFilled(created, famModules, m, order, Len(order))
            IN  /\ modules' = res.mods
                /\ famModules' = res.links
                /\ lastCall' = [op |-> "Module", args |-> <<module_id, order>>,
                                err |-> res.err,
                                ret |-> IF res.err = "none" THEN m ELSE None]
    /\ UNCHANGED <<pgVars, histVars, cc, cq, orgVars, rgVars, spotVars, annVars, mgVars>>

----------------------------------------------------------------------------
(* Pangenome.get_multigenics *)

\* A partitioned family is [named_partition, single, multi]: its partition,
\* the number of organisms that hold exactly one of its genes and the
\* number of organisms that hold more than one.
Partitions == {"persistent", "shell", "cloud", "undefined"}

\* A threshold is a fraction <<numerator, denominator>>.
Thresholds == {<<0, 1>>, <<1, 20>>, <<1, 10>>, <<1, 2>>, <<1, 1>>}

MeetsThresholdStrictly(dup, organisms, threshold) ==
    dup * threshold[2] > threshold[1] * organisms

\* dup / organisms >= threshold
MeetsThreshold(dup, organisms, threshold) ==
    dup * threshold[2] >= threshold[1] * organisms

\* Whether a family is multigenic for a threshold.
Multigenic(fam, threshold) ==
    /\ fam.named_partition = "persistent"
    /\ MeetsThreshold(fam.multi, fam.single + fam.multi, threshold)

PgGetMultigenics(families, threshold) ==
    {f \in DOMAIN families : Multigenic(families[f], threshold)}

get_multigenics(threshold) ==
    /\ lastCall' = Returned("get_multigenics", <<threshold>>,
                            PgGetMultigenics(gene_families, threshold))
    /\ UNCHANGED <<pgVars, histVars, cc, cq, orgVars, restVars>>

----------------------------------------------------------------------------
(* read_annotations: the workers and the contig counter *)

\* The processes of the pool (line 707), each reading one annotation file.
\* A worker is [pc, todo, contigs, tmp]: where it is, the contigs its file
\* still has to create, the IDs of those it created, and the value it read
\* for the increment.
WorkerPool == <<"w1", "w2", "w3", "w4">>
Workers == {WorkerPool[i] : i \in 1..MaxWorkers}

LockFreeAlways(counter) == TRUE

\* with contig_counter.get_lock(): the lock is taken when no process has it
LockFree(counter) == counter.lock = "free"

\* lines 216, 381, 437: the worker meets a contig it has not seen and
\* enters the with block.
get_lock(w) ==
    /\ workers[w].pc = "reading"
    /\ workers[w].todo > 0
    /\ LockFree(contig_counter)
    /\ contig_counter' = [contig_counter EXCEPT !.lock = w]
    /\ workers' = [workers EXCEPT ![w].pc = "locked"]
    /\ UNCHANGED <<pgVars, histVars, cc, cq, orgVars, rgVars, spotVars, modVars, mgVars, lastCall>>

\* lines 217, 382, 438: contig = Contig(contig_counter.value, ...)
new_contig(w) ==
    /\ workers[w].pc = "locked"
    /\ workers' = [workers EXCEPT ![w].pc = "created",
                                  ![w].contigs = Append(@, contig_counter.value)]
    /\ UNCHANGED <<pgVars, histVars, cc, cq, orgVars, rgVars, spotVars, modVars, mgVars,
                   lastCall, contig_counter>>

\* lines 219, 384, 440: contig_counter.value += 1 reads the value ...
value_read(w) ==
    /\ workers[w].pc = "created"
    /\ workers' = [workers EXCEPT ![w].pc = "read", ![w].tmp = contig_counter.value]
    /\ UNCHANGED <<pgVars, histVars, cc, cq, orgVars, rgVars, spotVars, modVars, mgVars,
                   lastCall, contig_counter>>

\* ... and writes it back, one more.
value_write(w) ==
    /\ workers[w].pc = "read"
    /\ contig_counter' = [contig_counter EXCEPT !.value = workers[w].tmp + 1]
    /\ workers' = [workers EXCEPT ![w].pc = "written"]
    /\ UNCHANGED <<pgVars, histVars, cc, cq, orgVars, rgVars, spotVars, modVars, mgVars, lastCall>>

\* The with block ends: the lock is released and the worker reads on.
release_lock(w) ==
    /\ workers[w].pc = "written"
    /\ contig_counter' = [contig_counter EXCEPT !.lock = "free"]
    /\ workers' = [workers EXCEPT ![w].pc = "reading", ![w].todo = @ - 1]
    /\ UNCHANGED <<pgVars, histVars, cc, cq, orgVars, rgVars, spotVars, modVars, mgVars, lastCall>>

\* The file is read: read_anno_file returns its organism.
read_anno_file(w) ==
    /\ workers[w].pc = "reading"
    /\ workers[w].todo = 0
    /\ workers' = [workers EXCEPT ![w].pc = "done"]
    /\ lastCall' = Returned("read_anno_file", <<w>>, workers[w].contigs)
    /\ UNCHANGED <<pgVars, histVars, cc, cq, orgVars, rgVars, spotVars, modVars, mgVars,
                   contig_counter>>

----------------------------------------------------------------------------
(* The graph under construction *)

NoGenerator == [state |-> "idle"]

\* Pangenome.__init__: self._orgGetter = {}
InitOrganisms ==
    /\ orgs = <<>>
    /\ orgGetter = <<>>

\* No contig, no Region and no border walk.
InitNoRegion ==
    /\ genome = <<>>
    /\ regions = <<>>
    /\ bw = [pc |-> "idle"]

\* Spot.__init__.  A dict keeps its keys in insertion order, and the loops
\* over it follow that order: _region_getter is the sequence of its
\* [name, region] items, _uniqOrderedSet and _uniqContent the sequences of
\* their [rep, members] items.  queried is history: the caches a query has
\* asked for.
\* The shared counter: a multiprocessing Value of `initial`, its lock free.
NewCounter(initial) == [value |-> initial, lock |-> "free", initial |-> initial]

NewSpot == [getter |-> <<>>, uniqOrderedSet |-> <<>>, uniqContent |-> <<>>,
            queried |-> {}]

\* No region in the Spot, no Module, and no worker reading a file.
InitOthers ==
    /\ spot = NewSpot
    /\ modules = <<>>
    /\ famModules = <<>>
    /\ contig_counter = NewCounter(0)
    /\ workers = <<>>
    /\ gene_families = <<>>

Init ==
    /\ fams = <<>>
    /\ edges = <<>>
    /\ famGetter = <<>>
    /\ edgeGetter = <<>>
    /\ max_fam_id = 0
    /\ lastCall = Returned("Pangenome", <<>>, None)
    /\ pairCalls = <<>>
    /\ nEdgeCalls = 0
    /\ cc = NoGenerator
    /\ cq = NoGenerator
    /\ InitOrganisms
    /\ InitOthers
    /\ InitNoRegion

Next ==
    \/ \E name \in EdgeFamNames : addGeneFamily(name)
    \/ \E gene1, gene2 \in Genes : \E org \in Orgs : addEdge(gene1, gene2, org)
    \/ \E fs \in SUBSET geneFamilies : removeFamsFrom(fs)
    \/ \E e \in pangenomeEdges : EdgeRemove(e)

Spec == Init /\ [][Next]_vars

\* The construction of the graph alone: families and edges are added and
\* nothing is removed.
NextEdges ==
    \/ \E name \in EdgeFamNames : addGeneFamily(name)
    \/ \E gene1, gene2 \in Genes : \E org \in Orgs : addEdge(gene1, gene2, org)

SpecEdges == Init /\ [][NextEdges]_vars

\* A built graph: the pangenome after addGeneFamily for the first n names
\* and one addEdge call for each pair of K, in the order of AddOrder.  A
\* pair <<a, b>> with a <= b is a call with a gene of family a and a gene
\* of family b; <<1, None>> is a call with a gene of the first family and a
\* gene without family (the traversals treat all families alike, so one
\* family with such a call stands for any).
GraphPairs(n) ==
    {p \in (1..n) \X (0..n) : IF p[2] = None THEN p[1] = 1 ELSE p[1] <= p[2]}
AddOrder(p) == p[1] * (MaxGraphFams + 2) + p[2]

RECURSIVE WithFamilies(_, _)
WithFamilies(pg, n) ==
    IF n = 0 THEN pg
    ELSE LET before == WithFamilies(pg, n - 1)
             r == PgAddGeneFamily(before, FamNamePool[n])
         IN  [before EXCEPT !.fams = r.fams, !.famGetter = r.famGetter,
                            !.max_fam_id = r.max_fam_id]

GeneOf(f) == [family |-> f, organism |-> "org1"]

RECURSIVE WithEdges(_, _)
WithEdges(pg, K) ==
    IF K = {} THEN pg
    ELSE LET p == CHOOSE x \in K : \A y \in K : AddOrder(y) <= AddOrder(x)
             before == WithEdges(pg, K \ {p})
             r == PgAddEdge(before, GeneOf(p[1]), GeneOf(p[2]), "org1")
         IN  [before EXCEPT !.fams = r.fams, !.edges = r.edges,
                            !.edgeGetter = r.edgeGetter]

InitGraph ==
    \E n \in 0..MaxGraphFams : \E K \in SUBSET GraphPairs(n) :
        LET pg == WithEdges(WithFamilies(NewPangenome, n), K)
        IN  /\ fams = pg.fams
            /\ edges = pg.edges
            /\ famGetter = pg.famGetter
            /\ edgeGetter = pg.edgeGetter
            /\ max_fam_id = pg.max_fam_id
            /\ lastCall = Returned("Pangenome", <<>>, None)
            /\ pairCalls = [c \in {<<{p[1], p[2]}, "org1">> :
                                     p \in {x \in K : x[2] # None}} |-> 1]
            /\ nEdgeCalls = Cardinality(K)
            /\ cc = NoGenerator
            /\ cq = NoGenerator
            /\ InitOrganisms
            /\ InitOthers
            /\ InitNoRegion

\* connectedComponents() on a built graph.
NextComponents == ccCall \/ ccNext

SpecComponents == InitGraph /\ [][NextComponents]_vars

\* findCliques(fams) on a built graph.
NextCliques ==
    \/ \E famsArg \in SUBSET geneFamilies : cqCall(famsArg)
    \/ cqStep

SpecCliques == InitGraph /\ [][NextCliques]_vars

\* The organism registry alone.
NextOrganisms ==
    \/ \E name \in Orgs : getOrganism(name)
    \/ \E newOrg \in OrgRefs : addOrganism(newOrg)
    \/ \E name \in Orgs : addNewOrganism(name)

SpecOrganisms == Init /\ [][NextOrganisms]_vars

\* The family registry alone: creations and removals, no edges.
NextFamilies ==
    \/ \E name \in FamNames : addGeneFamily(name)
    \/ \E fs \in SUBSET geneFamilies : removeFamsFrom(fs)

SpecFamilies == Init /\ [][NextFamilies]_vars

\* One Region over three contigs: ctgA and ctgB of one organism, ctgC of
\* another; ctgA is linear or circular.
AGene(f) == [family |-> f, RGP |-> "None"]

RegionGenome(circular) ==
    [ctgA |-> [organism |-> "org1", is_circular |-> circular,
               genes |-> <<AGene("famP"), AGene("famS")>>],
     ctgB |-> [organism |-> "org1", is_circular |-> FALSE,
               genes |-> <<AGene("famP")>>],
     ctgC |-> [organism |-> "org2", is_circular |-> FALSE,
               genes |-> <<AGene("famP")>>]]

InitRegion ==
    /\ fams = <<>>
    /\ edges = <<>>
    /\ famGetter = <<>>
    /\ edgeGetter = <<>>
    /\ max_fam_id = 0
    /\ lastCall = Returned("Region", <<>>, None)
    /\ pairCalls = <<>>
    /\ nEdgeCalls = 0
    /\ cc = NoGenerator
    /\ cq = NoGenerator
    /\ InitOrganisms
    /\ InitOthers
    /\ \E circular \in BOOLEAN : genome = RegionGenome(circular)
    /\ regions = [r \in {"rgp1"} |-> NewRegion]
    /\ bw = [pc |-> "idle"]

NextRegion ==
    \/ \E r \in RegionNames, position \in 0..MaxPosition,
          gene \in GeneRefs \cup {NotAGene} : setitem(r, position, gene)
    \/ \E r \in RegionNames, position \in 0..MaxPosition : delitem(r, position)
    \/ \E r \in RegionNames : is_whole_contig(r)
    \/ \E r \in RegionNames : is_contig_border(r)

SpecRegion == InitRegion /\ [][NextRegion]_vars

\* Two Regions to compare: rgp1 takes its genes from ctgA and rgp2 from
\* ctgB, each gene at its own position, in any order.
RegionFams == {"famP", "famS"}

FamilySeqs == UNION {[1..n -> RegionFams] : n \in 0..MaxRegionLen}

RegionContig == [rgp1 |-> "ctgA", rgp2 |-> "ctgB"]

InitRegionEq ==
    /\ fams = <<>>
    /\ edges = <<>>
    /\ famGetter = <<>>
    /\ edgeGetter = <<>>
    /\ max_fam_id = 0
    /\ lastCall = Returned("Region", <<>>, None)
    /\ pairCalls = <<>>
    /\ nEdgeCalls = 0
    /\ cc = NoGenerator
    /\ cq = NoGenerator
    /\ InitOrganisms
    /\ InitOthers
    /\ \E fa, fb \in FamilySeqs :
          genome = [c \in {"ctgA", "ctgB"} |->
                      [organism |-> "org1", is_circular |-> FALSE,
                       genes |-> [i \in 1..Len(IF c = "ctgA" THEN fa ELSE fb) |->
                                    AGene((IF c = "ctgA" THEN fa ELSE fb)[i])]]]
    /\ regions = [r \in DOMAIN RegionContig |-> NewRegion]
    /\ bw = [pc |-> "idle"]

NextRegionEq ==
    \/ \E r \in RegionNames, gene \in GeneRefs :
          /\ gene.contig = RegionContig[r]
          /\ setitem(r, gene.position, gene)
    \/ \E r \in RegionNames, other \in RegionNames \cup {"notARegion"} :
          eq(r, other)

SpecRegionEq == InitRegionEq /\ [][NextRegionEq]_vars

\* One contig of up to MaxContigLen genes, linear or circular, and on it a
\* Region that holds the genes of positions lo..hi, each stored at its own
\* position (no gene when lo > hi).
RECURSIVE Filled(_, _, _)
Filled(rg, lo, hi) ==
    IF lo > hi THEN rg
    ELSE RgSetItem(Filled(rg, lo, hi - 1), hi,
                   [contig |-> "ctgA", position |-> hi]).rg

InitBorders ==
    /\ fams = <<>>
    /\ edges = <<>>
    /\ famGetter = <<>>
    /\ edgeGetter = <<>>
    /\ max_fam_id = 0
    /\ lastCall = Returned("Region", <<>>, None)
    /\ pairCalls = <<>>
    /\ nEdgeCalls = 0
    /\ cc = NoGenerator
    /\ cq = NoGenerator
    /\ InitOrganisms
    /\ InitOthers
    /\ bw = [pc |-> "idle"]
    /\ \E len \in 1..MaxContigLen, circular \in BOOLEAN :
       \E fs \in [1..len -> RegionFams], lo \in 0..(len - 1), hi \in -1..(len - 1) :
          /\ hi >= lo \/ (hi = -1 /\ lo = 0)
          /\ genome = [c \in {"ctgA"} |->
                         [organism |-> "org1", is_circular |-> circular,
                          genes |-> [i \in 1..len |->
                                       [family |-> fs[i],
                                        RGP |-> IF i - 1 \in lo..hi
                                                THEN "rgp1" ELSE "None"]]]]
          /\ regions = [r \in {"rgp1"} |-> Filled(NewRegion, lo, hi)]

NextBorders ==
    \/ \E r \in RegionNames, n \in 0..MaxN, multigenics \in SUBSET RegionFams :
          get_bordering_genes(r, n, multigenics)
    \/ upStep
    \/ downStep

SpecBorders == InitBorders /\ [][NextBorders]_vars

\* A call that has begun goes on: the loops are not suspended forever.
SpecBordersFair == SpecBorders /\ WF_vars(upStep \/ downStep)

\* A contig of the families fs whose genes of positions lo..hi are held by
\* the Region rgp, and that Region: each gene stored at its own position.
ContigHeld(fs, circular, rgp, lo, hi) ==
    [organism |-> "org1", is_circular |-> circular,
     genes |-> [i \in 1..Len(fs) |->
                  [family |-> fs[i],
                   RGP |-> IF i - 1 \in lo..hi THEN rgp ELSE "None"]]]

RECURSIVE FilledOn(_, _, _, _)
FilledOn(rg, c, lo, hi) ==
    IF lo > hi THEN rg
    ELSE RgSetItem(FilledOn(rg, c, lo, hi - 1), hi,
                   [contig |-> c, position |-> hi]).rg

\* Three Regions for a Spot, each holding its whole contig: rgp1 and rgp2
\* mirror each other, rgp3 differs from both.
SpotContig == [rgp1 |-> "ctgA", rgp2 |-> "ctgB", rgp3 |-> "ctgC"]
SpotFamilies == [ctgA |-> <<"famP", "famS">>, ctgB |-> <<"famS", "famP">>,
                 ctgC |-> <<"famP">>]

InitSpot ==
    /\ fams = <<>>
    /\ edges = <<>>
    /\ famGetter = <<>>
    /\ edgeGetter = <<>>
    /\ max_fam_id = 0
    /\ lastCall = Returned("Spot", <<>>, None)
    /\ pairCalls = <<>>
    /\ nEdgeCalls = 0
    /\ cc = NoGenerator
    /\ cq = NoGenerator
    /\ InitOrganisms
    /\ InitOthers
    /\ bw = [pc |-> "idle"]
    /\ genome = [c \in DOMAIN SpotFamilies |->
                    ContigHeld(SpotFamilies[c], FALSE,
                               CHOOSE r \in DOMAIN SpotContig : SpotContig[r] = c,
                               0, Len(SpotFamilies[c]) - 1)]
    /\ regions = [r \in DOMAIN SpotContig |->
                    FilledOn(NewRegion, SpotContig[r], 0,
                             Len(SpotFamilies[SpotContig[r]]) - 1)]

\* The names given to spot[name] = region.
SpotKeys == {"rgp1", "rgp2"}

NextSpot ==
    \/ \E name \in SpotKeys, region \in RegionNames \cup {"notARegion"} :
          spot_setitem(name, region)
    \/ \E name \in SpotKeys : spot_delitem(name)
    \/ get_uniq_ordered_set
    \/ get_uniq_to_rgp
    \/ count_uniq_ordered_set
    \/ get_uniq_content
    \/ count_uniq_content

SpecSpot == InitSpot /\ [][NextSpot]_vars

\* A Spot filled before any query: three contigs of any families, each held
\* whole by its Region, and the first k Regions put in the Spot under their
\* names.
SpotOrder == <<"rgp1", "rgp2", "rgp3">>

RECURSIVE SpotOf(_)
SpotOf(k) ==
    IF k = 0 THEN NewSpot
    ELSE SpSetItem(SpotOf(k - 1), SpotOrder[k], SpotOrder[k]).sp

InitSpotGroups ==
    /\ fams = <<>>
    /\ edges = <<>>
    /\ famGetter = <<>>
    /\ edgeGetter = <<>>
    /\ max_fam_id = 0
    /\ lastCall = Returned("Spot", <<>>, None)
    /\ pairCalls = <<>>
    /\ nEdgeCalls = 0
    /\ cc = NoGenerator
    /\ cq = NoGenerator
    /\ InitOrganisms
    /\ modules = <<>>
    /\ famModules = <<>>
    /\ contig_counter = NewCounter(0)
    /\ workers = <<>>
    /\ gene_families = <<>>
    /\ bw = [pc |-> "idle"]
    /\ \E fa, fb, fc \in FamilySeqs :
          LET fs == [ctgA |-> fa, ctgB |-> fb, ctgC |-> fc]
          IN  /\ genome = [c \in DOMAIN fs |->
                              ContigHeld(fs[c], FALSE,
                                         CHOOSE r \in DOMAIN SpotContig : SpotContig[r] = c,
                                         0, Len(fs[c]) - 1)]
              /\ regions = [r \in DOMAIN SpotContig |->
                              FilledOn(NewRegion, SpotContig[r], 0,
                                       Len(fs[SpotContig[r]]) - 1)]
    /\ \E k \in 0..Len(SpotOrder) : spot = SpotOf(k)

NextSpotGroups ==
    \/ get_uniq_ordered_set
    \/ get_uniq_to_rgp
    \/ count_uniq_ordered_set
    \/ get_uniq_content
    \/ count_uniq_content

SpecSpotGroups == InitSpotGroups /\ [][NextSpotGroups]_vars

\* A Spot whose borders are asked for: ctgA and ctgB are any contigs of up
\* to MaxBorderContigLen genes, all linear or all circular, each with a Region over
\* any interval of it (or, on ctgB, a Region that never held a gene); ctgC
\* is ctgA read backwards, with its Region over the same genes.
Interval(len) ==
    {iv \in (0..(len - 1)) \X (0..(len - 1)) : iv[1] <= iv[2]}

InitSpotBorders ==
    /\ fams = <<>>
    /\ edges = <<>>
    /\ famGetter = <<>>
    /\ edgeGetter = <<>>
    /\ max_fam_id = 0
    /\ lastCall = Returned("Spot", <<>>, None)
    /\ pairCalls = <<>>
    /\ nEdgeCalls = 0
    /\ cc = NoGenerator
    /\ cq = NoGenerator
    /\ InitOrganisms
    /\ modules = <<>>
    /\ famModules = <<>>
    /\ contig_counter = NewCounter(0)
    /\ workers = <<>>
    /\ gene_families = <<>>
    /\ bw = [pc |-> "idle"]
    /\ \E la, lb \in 1..MaxBorderContigLen, circular \in BOOLEAN :
       \E fa \in [1..la -> RegionFams], fb \in [1..lb -> RegionFams],
          ia \in Interval(la), ib \in Interval(lb) \cup {<<0, -1>>} :
          /\ genome = [ctgA |-> ContigHeld(fa, circular, "rgp1", ia[1], ia[2]),
                       ctgB |-> ContigHeld(fb, circular, "rgp2", ib[1], ib[2]),
                       ctgC |-> ContigHeld(Reverse(fa), circular, "rgp3",
                                           la - 1 - ia[2], la - 1 - ia[1])]
          /\ regions = [rgp1 |-> FilledOn(NewRegion, "ctgA", ia[1], ia[2]),
                        rgp2 |-> FilledOn(NewRegion, "ctgB", ib[1], ib[2]),
                        rgp3 |-> FilledOn(NewRegion, "ctgC",
                                          la - 1 - ia[2], la - 1 - ia[1])]
    /\ spot = SpotOf(Len(SpotOrder))

\* multigenics is a set of persistent families.
PersistentFams == {f \in RegionFams : named_partition[f] = "persistent"}

NextSpotBorders ==
    \E set_size \in 0..MaxSetSize, multigenics \in SUBSET PersistentFams :
        borders(set_size, multigenics)

SpecSpotBorders == InitSpotBorders /\ [][NextSpotBorders]_vars

\* Modules made of three GeneFamily objects none of which is in a module
\* yet.  A constructor gets any set of them, in any order of iteration.
InitModule ==
    /\ fams = <<>>
    /\ edges = <<>>
    /\ famGetter = <<>>
    /\ edgeGetter = <<>>
    /\ max_fam_id = 0
    /\ lastCall = Returned("Pangenome", <<>>, None)
    /\ pairCalls = <<>>
    /\ nEdgeCalls = 0
    /\ cc = NoGenerator
    /\ cq = NoGenerator
    /\ InitOrganisms
    /\ InitNoRegion
    /\ spot = NewSpot
    /\ modules = <<>>
    /\ famModules = [f \in ModFams |-> {}]
    /\ contig_counter = NewCounter(0)
    /\ workers = <<>>
    /\ gene_families = <<>>

FamilyOrders ==
    {order \in UNION {[1..n -> ModFams] : n \in 0..Cardinality(ModFams)} :
        \A i, j \in 1..Len(order) : order[i] = order[j] => i = j}

NextModule ==
    \/ \E module_id \in {Len(modules), NotAnInt}, order \in FamilyOrders :
          Module(module_id, order)
    \/ \E m \in ModRefs, name \in ModNames, family \in ModFams \cup {"notAFamily"} :
          module_setitem(m, name, family)

SpecModule == InitModule /\ [][NextModule]_vars

\* A partitioned pangenome of two families, each of any partition and held
\* by 1 to MaxFamOrganisms organisms, any number of them with more than
\* one of its genes.
PartitionedFamilies ==
    UNION {{[named_partition |-> p, single |-> n - d, multi |-> d] :
               p \in Partitions, d \in 0..n} : n \in 1..MaxFamOrganisms}

InitMultigenics ==
    /\ fams = <<>>
    /\ edges = <<>>
    /\ famGetter = <<>>
    /\ edgeGetter = <<>>
    /\ max_fam_id = 0
    /\ lastCall = Returned("Pangenome", <<>>, None)
    /\ pairCalls = <<>>
    /\ nEdgeCalls = 0
    /\ cc = NoGenerator
    /\ cq = NoGenerator
    /\ InitOrganisms
    /\ InitNoRegion
    /\ spot = NewSpot
    /\ modules = <<>>
    /\ famModules = <<>>
    /\ contig_counter = NewCounter(0)
    /\ workers = <<>>
    /\ \E fa, fb \in PartitionedFamilies :
          gene_families = [famA |-> fa, famB |-> fb]

NextMultigenics == \E threshold \in Thresholds : get_multigenics(threshold)

SpecMultigenics == InitMultigenics /\ [][NextMultigenics]_vars

\* read_annotations has submitted one file to each worker; a file makes
\* its worker create up to MaxNewContigs contigs.
InitAnnotate ==
    /\ fams = <<>>
    /\ edges = <<>>
    /\ famGetter = <<>>
    /\ edgeGetter = <<>>
    /\ max_fam_id = 0
    /\ lastCall = Returned("Pangenome", <<>>, None)
    /\ pairCalls = <<>>
    /\ nEdgeCalls = 0
    /\ cc = NoGenerator
    /\ cq = NoGenerator
    /\ InitOrganisms
    /\ InitNoRegion
    /\ spot = NewSpot
    /\ modules = <<>>
    /\ famModules = <<>>
    /\ gene_families = <<>>
    /\ \E initial \in 0..MaxInitialCounter : contig_counter = NewCounter(initial)
    /\ \E todo \in [Workers -> 0..MaxNewContigs] :
          workers = [w \in Workers |->
                        [pc |-> "reading", todo |-> todo[w], contigs |-> <<>>, tmp |-> 0]]

NextAnnotate ==
    \E w \in Workers :
        \/ get_lock(w)
        \/ new_contig(w)
        \/ value_read(w)
        \/ value_write(w)
        \/ release_lock(w)
        \/ read_anno_file(w)

SpecAnnotate == InitAnnotate /\ [][NextAnnotate]_vars

----------------------------------------------------------------------------
(* Properties of the registries *)

\* The endpoints of an edge, as a set of families.
Ends(e) == {edges[e].source, edges[e].target}

\* C1: every Edge of the edge registry, with endpoints A and B, is the entry
\* for B in A's neighbor map and the entry for A in B's neighbor map, and it
\* is the Edge the registry holds for {A, B}.
C1_EdgeSymmetric ==
    \A k \in DOMAIN edgeGetter :
        LET e == edgeGetter[k]
            A == edges[e].source
            B == edges[e].target
        IN  /\ A \in FamRefs /\ B \in FamRefs
            /\ B \in DOMAIN fams[A]._edges
            /\ A \in DOMAIN fams[B]._edges
            /\ fams[A]._edges[B] = e
            /\ fams[B]._edges[A] = e
            /\ {A, B} \in DOMAIN edgeGetter
            /\ edgeGetter[{A, B}] = e

\* Two addEdge calls have completed, and an edge between two distinct
\* families is registered.
C1_Witness ==
    /\ nEdgeCalls >= 2
    /\ \E k \in DOMAIN edgeGetter : Cardinality(k) = 2
    /\ Cardinality(DOMAIN edgeGetter) >= 2

\* C2: after k completed addEdge calls with a gene of A and a gene of B
\* under organism o, in either argument order, exactly one registered Edge
\* has the endpoints {A, B} and its pair list for o has exactly k entries.
C2_OneEdgeKPairs ==
    \A c \in DOMAIN pairCalls :
        LET es == {e \in pangenomeEdges : Ends(e) = c[1]}
        IN  /\ Cardinality(es) = 1
            /\ Cardinality({k \in DOMAIN edgeGetter : edgeGetter[k] \in es}) = 1
            /\ \A e \in es : Len(edges[e].organisms[c[2]]) = pairCalls[c]

\* Two calls for one pair of distinct families under one organism, the
\* second with the genes' families in the opposite argument order.
C2_Witness ==
    \E e \in pangenomeEdges : \E o \in Orgs :
        /\ edges[e].source # edges[e].target
        /\ Len(edges[e].organisms[o]) = 2
        /\ edges[e].organisms[o][1][1].family = edges[e].organisms[o][2][2].family
        /\ edges[e].organisms[o][1][2].family = edges[e].organisms[o][2][1].family

\* The families findCliques(fams) searches: fams, or every family of the
\* pangenome when fams is empty.
Searched == IF cq.arg = {} THEN geneFamilies ELSE cq.arg
Members(C) == {C[i] : i \in 1..Len(C)}
Yielded == IF cq.state = "idle" THEN {} ELSE Members(cq.yielded)

\* C3: once connectedComponents() has ended, every family of the pangenome
\* is in exactly one yielded component and no edge of the pangenome joins
\* families of two different components.
C3_ComponentsPartition ==
    cc.state \in {"done", "raised"} =>
        /\ \A f \in geneFamilies :
               Cardinality({i \in 1..Len(cc.yielded) :
                               fams[f].name \in cc.yielded[i]}) = 1
        /\ \A e \in pangenomeEdges : \A i \in 1..Len(cc.yielded) :
               fams[edges[e].source].name \in cc.yielded[i]
                   <=> fams[edges[e].target].name \in cc.yielded[i]

\* C4: every list findCliques yields is a clique of the searched set: its
\* members are distinct families of that set, adjacent two by two.
C4_YieldedAreCliques ==
    \A C \in Yielded :
        /\ Members(C) \subseteq Searched
        /\ \A i, j \in 1..Len(C) :
               i # j => C[i] # C[j] /\ C[j] \in neighbors(C[i])

\* A search of a given set of families has ended after yielding two
\* cliques or more, one of them of two families or more.
C4_Witness ==
    /\ cq.state = "done"
    /\ cq.arg # {}
    /\ \E C \in Yielded : Len(C) >= 2
    /\ Cardinality(Yielded) >= 2

\* C5: every yielded clique is maximal in the searched set: each searched
\* family outside it is not adjacent to some member of it.
C5_YieldedAreMaximal ==
    \A C \in Yielded :
        \A f \in Searched \ Members(C) :
            \E m \in Members(C) : f \notin neighbors(m)

\* A clique of two or more families was yielded, and a searched family
\* outside it is adjacent to one of its members.
C5_Witness ==
    /\ cq.state = "done"
    /\ \E C \in Yielded :
          /\ Len(C) >= 2
          /\ \E f \in Searched \ Members(C) :
                \E m \in Members(C) : f \in neighbors(m)

\* C6: after removeFamsFrom(fams), none of the families of fams is in the
\* family registry, each has removed = TRUE, and no family left in the
\* registry has one of them as a key of its neighbor map.
C6_RemovedFamiliesDetached ==
    lastCall.op = "removeFamsFrom" =>
        \A f \in lastCall.args[1] :
            /\ f \notin geneFamilies
            /\ fams[f].removed
            /\ \A g \in geneFamilies : f \notin neighbors(g)

\* C7: an addEdge call with a gene that has no family raises, and leaves the
\* edge registry and every family's neighbor map as they were.
C7_NullFamilyChangesNothing ==
    [][(/\ lastCall'.op = "addEdge"
        /\ \/ lastCall'.args[1].family = None
           \/ lastCall'.args[2].family = None)
       => /\ lastCall'.err # "none"
          /\ edgeGetter' = edgeGetter
          /\ \A f \in FamRefs : fams'[f]._edges = fams[f]._edges]_vars

\* C8: both genes of every pair an Edge stores under organism o belong to o.
C8_PairsInKeyOrganism ==
    \A e \in pangenomeEdges : \A o \in Orgs :
        \A i \in 1..Len(edges[e].organisms[o]) :
            /\ edges[e].organisms[o][i][1].organism = o
            /\ edges[e].organisms[o][i][2].organism = o

\* C9: no registered Edge has source = target, and no family is a key of
\* its own neighbor map.
C9_NoSelfEdge ==
    /\ \A e \in pangenomeEdges : edges[e].source # edges[e].target
    /\ \A f \in FamRefs : f \notin neighbors(f)

\* C10: family IDs strictly increase in creation order (the heap order), so
\* no two families ever created have the same ID.
C10_IDsIncrease ==
    \A i, j \in FamRefs : i < j => fams[i].ID < fams[j].ID

\* Three families were created and removeFamsFrom was called on a
\* non-empty set of them.
C10_Witness ==
    /\ Len(fams) >= 3
    /\ lastCall.op = "removeFamsFrom"
    /\ lastCall.args[1] # {}

\* C11: addGeneFamily(name) is get-or-create: no two families ever created
\* have the same name, the registry holds the one family of each name, one
\* ID was consumed per family created, and a call returns the family the
\* registry holds under the name.
C11_GetOrCreate ==
    /\ \A i, j \in FamRefs : fams[i].name = fams[j].name => i = j
    /\ \A n \in DOMAIN famGetter : fams[famGetter[n]].name = n
    /\ Cardinality(DOMAIN famGetter) = Len(fams)
    /\ max_fam_id = Len(fams)
    /\ lastCall.op = "addGeneFamily" =>
           /\ lastCall.args[1] \in DOMAIN famGetter
           /\ lastCall.ret = famGetter[lastCall.args[1]]

\* A call with the name of a family created earlier returned that family:
\* it is not the last created one.
C11_Witness ==
    /\ lastCall.op = "addGeneFamily"
    /\ Len(fams) >= 2
    /\ lastCall.ret < Len(fams)

\* C12: getOrganism(name) with a registered name returns the registered
\* Organism and creates nothing; addOrganism with another Organism object
\* under a registered name raises KeyError.
C12_OrganismByName ==
    [][/\ (lastCall'.op = "getOrganism" /\ lastCall'.args[1] \in DOMAIN orgGetter)
          => /\ lastCall'.err = "none"
             /\ lastCall'.ret = orgGetter[lastCall'.args[1]]
             /\ orgs' = orgs
             /\ orgGetter' = orgGetter
       /\ (/\ lastCall'.op = "addOrganism"
           /\ orgs'[lastCall'.args[1]].name \in DOMAIN orgGetter
           /\ orgGetter[orgs'[lastCall'.args[1]].name] # lastCall'.args[1])
          => lastCall'.err = "KeyError"]_vars

\* addOrganism has just rejected a second Organism object of a registered
\* name.
C12_Witness ==
    /\ lastCall.op = "addOrganism"
    /\ lastCall.err = "KeyError"
    /\ \E o \in OrgRefs :
          /\ o # lastCall.args[1]
          /\ orgs[o].name = orgs[lastCall.args[1]].name

----------------------------------------------------------------------------
(* Properties of a Region *)

\* The genes a region holds.
Stored(rg) == {rg.getter[k] : k \in DOMAIN rg.getter}

\* C18: the starter of a non-empty Region is the gene stored at the smallest
\* stored position and its stopper the gene stored at the largest one, after
\* any insertions and deletions.
C18_StarterStopperAtExtremes ==
    \A r \in RegionNames :
        RgLen(regions[r]) > 0 =>
            /\ regions[r].starter = regions[r].getter[Min(DOMAIN regions[r].getter)]
            /\ regions[r].stopper = regions[r].getter[Max(DOMAIN regions[r].getter)]

\* C19: after every step the genes a Region holds are of one organism and
\* one contig, and an insertion of a gene whose organism or contig differs
\* from that of a stored gene is rejected and changes neither the gene map
\* nor starter nor stopper.
C19_OneOrganismOneContig ==
    [][/\ \A r \in DOMAIN regions' : \A g, h \in Stored(regions'[r]) :
             /\ g.contig = h.contig
             /\ genome'[g.contig].organism = genome'[h.contig].organism
       /\ (/\ lastCall'.op = "setitem"
           /\ IsGene(lastCall'.args[3])
           /\ \E h \in Stored(regions[lastCall'.args[1]]) :
                 \/ h.contig # lastCall'.args[3].contig
                 \/ GeneOrganismOf(h) # GeneOrganismOf(lastCall'.args[3]))
          => /\ lastCall'.err = "Exception"
             /\ regions' = regions]_vars

\* A gene of another contig has just been refused by a region that holds a
\* gene.
C19_Witness ==
    /\ lastCall.op = "setitem"
    /\ lastCall.err = "Exception"
    /\ \E h \in Stored(regions[lastCall.args[1]]) :
          /\ h.contig # lastCall.args[3].contig
          /\ GeneOrganismOf(h) = GeneOrganismOf(lastCall.args[3])

\* The region of the last call holds a gene and they are on a circular contig.
OnCircularContig(rg) ==
    /\ RgLen(rg) > 0
    /\ \A g \in Stored(rg) : genome[g.contig].is_circular

\* C20: on a circular contig is_contig_border and is_whole_contig both return
\* False whatever the region covers, and on an empty region they raise.
C20_CircularNeverBorderNorWhole ==
    lastCall.op \in {"is_contig_border", "is_whole_contig"} =>
        LET rg == regions[lastCall.args[1]]
        IN  /\ RgLen(rg) = 0 => lastCall.err # "none"
            /\ OnCircularContig(rg) => lastCall.err = "none" /\ lastCall.ret = FALSE

\* C20 as the code has it: is_contig_border is False on a circular contig
\* and raises on a region without gene; is_whole_contig does not look at
\* circularity: it raises when the region never held a gene and otherwise
\* is True exactly when the starter is the first gene of its contig and the
\* stopper the last one.
C20_WholeContigIgnoresCircularity ==
    /\ lastCall.op = "is_contig_border" =>
          LET rg == regions[lastCall.args[1]]
          IN  /\ RgLen(rg) = 0 => lastCall.err = "Exception"
              /\ OnCircularContig(rg) => lastCall.err = "none" /\ lastCall.ret = FALSE
    /\ lastCall.op = "is_whole_contig" =>
          LET rg == regions[lastCall.args[1]]
          IN  IF rg.starter = NoGene
              THEN lastCall.err = "AttributeError"
              ELSE /\ lastCall.err = "none"
                   /\ lastCall.ret =
                        (/\ rg.starter = ContigGet(rg.starter.contig, 0)
                         /\ rg.stopper = ContigGet(rg.starter.contig, -1))

\* is_whole_contig has returned True for a region that holds both genes of a
\* circular contig.
C20_Witness ==
    /\ lastCall.op = "is_whole_contig"
    /\ lastCall.err = "none"
    /\ lastCall.ret = TRUE
    /\ OnCircularContig(regions[lastCall.args[1]])
    /\ RgLen(regions[lastCall.args[1]]) = 2

\* The families of the contig of region r at the positions r holds, in
\* contig order.
RECURSIVE HeldFamilies(_, _)
HeldFamilies(r, n) ==
    IF n = 0 THEN <<>>
    ELSE HeldFamilies(r, n - 1) \o
         (IF n - 1 \in DOMAIN regions[r].getter
          THEN <<genome[RegionContig[r]].genes[n].family>> ELSE <<>>)

Held(r) == HeldFamilies(r, ContigLen(RegionContig[r]))

\* C13: two Regions are equal iff their family sequences, read in
\* increasing gene position, are the same or mirror each other, and
\* a == b iff b == a.
C13_EqualForwardOrReversed ==
    /\ \A a, b \in RegionNames : RgEq(a, b).ret = RgEq(b, a).ret
    /\ (lastCall.op = "eq" /\ lastCall.args[2] \in RegionNames) =>
          LET fa == Held(lastCall.args[1])
              fb == Held(lastCall.args[2])
          IN  /\ lastCall.err = "none"
              /\ lastCall.ret =
                   (\/ fa = fb
                    \/ /\ Len(fa) = Len(fb)
                       /\ \A i \in 1..Len(fa) : fa[i] = fb[Len(fb) + 1 - i])

\* Two regions holding every gene of their contigs, with mirrored and
\* different family sequences, compared equal.
C13_Witness ==
    /\ lastCall.op = "eq"
    /\ lastCall.args = <<"rgp1", "rgp2">>
    /\ lastCall.ret = TRUE
    /\ RgLen(regions["rgp1"]) = ContigLen("ctgA")
    /\ RgLen(regions["rgp2"]) = ContigLen("ctgB")
    /\ Held("rgp1") # Held("rgp2")

----------------------------------------------------------------------------
(* Properties of get_bordering_genes *)

\* The contig of the walk and the two lists it has built so far.
WalkContig == RgContig(regions[bw.rgp])
Upstream == bw.border[1]
Downstream == bw.border[2]
Walking == bw.pc \in {"up", "down"}
WalkDone == bw.pc = "done"

\* C14: every gene of the upstream and of the downstream border is of a
\* persistent family that is not in multigenics.
C14_BordersPersistentSingleCopy ==
    WalkDone =>
        \A b \in {Upstream, Downstream} : \A i \in 1..Len(b) :
            /\ named_partition[GeneFamilyOf(b[i])] = "persistent"
            /\ GeneFamilyOf(b[i]) \notin bw.multigenics

\* C15: a call of get_bordering_genes on a region that holds a gene
\* returns, whatever n and the contig.
C15_WalkTerminates == Walking ~> WalkDone

\* The call has returned two empty borders from a circular contig of fewer
\* than 2n genes: both walks went all the way around.
C15_Witness ==
    /\ WalkDone
    /\ genome[WalkContig].is_circular
    /\ ContigLen(WalkContig) < 2 * bw.n
    /\ Upstream = <<>>
    /\ Downstream = <<>>

\* C16: on a circular contig of L <= 2n genes the two borders hold at most
\* L - 1 genes together.
C16_CircularBordersBelowLength ==
    (/\ WalkDone
     /\ genome[WalkContig].is_circular
     /\ ContigLen(WalkContig) <= 2 * bw.n)
    => Len(Upstream) + Len(Downstream) <= ContigLen(WalkContig) - 1

\* C17: on a linear contig the upstream border holds genes of positions
\* below the starter's in decreasing order, the downstream border genes of
\* positions above the stopper's in increasing order, and each at most n.
C17_LinearBordersOrdered ==
    (bw.pc # "idle" /\ ~genome[WalkContig].is_circular) =>
        /\ Len(Upstream) <= bw.n
        /\ Len(Downstream) <= bw.n
        /\ \A i \in 1..Len(Upstream) :
              /\ Upstream[i].contig = WalkContig
              /\ Upstream[i].position \in 0..(regions[bw.rgp].starter.position - 1)
              /\ i > 1 => Upstream[i].position < Upstream[i - 1].position
        /\ \A i \in 1..Len(Downstream) :
              /\ Downstream[i].contig = WalkContig
              /\ Downstream[i].position \in
                    (regions[bw.rgp].stopper.position + 1)..(ContigLen(WalkContig) - 1)
              /\ i > 1 => Downstream[i].position > Downstream[i - 1].position

\* The call has returned from a linear contig with a gene in each border,
\* the upstream walk having stopped at the contig edge with room for more.
C17_Witness ==
    /\ WalkDone
    /\ ~genome[WalkContig].is_circular
    /\ Len(Upstream) = 1
    /\ Len(Downstream) = 1
    /\ bw.n = 2

----------------------------------------------------------------------------
(* Properties of the organism registry, continued *)

\* C29: a call of addOrganism that raises KeyError leaves the organism
\* registry as it was: every name still maps to the Organism it mapped to.
C29_RejectedLeavesRegistry ==
    [][(lastCall'.op = "addOrganism" /\ lastCall'.err = "KeyError")
          => orgGetter' = orgGetter]_vars

----------------------------------------------------------------------------
(* Properties of findCliques, continued *)

\* The sets of families each yielded list holds.
YieldedSets == {Members(C) : C \in Yielded}

\* A set of searched families that are pairwise adjacent, to which no other
\* searched family is adjacent throughout.
MaximalClique(S) ==
    /\ S # {}
    /\ \A f, g \in S : f # g => g \in neighbors(f)
    /\ \A f \in Searched \ S : \E m \in S : f \notin neighbors(m)

\* C28: once findCliques has ended, every maximal clique of the searched
\* graph has been yielded, and no two yielded lists hold the same families.
C28_EveryMaximalCliqueOnce ==
    cq.state = "done" =>
        /\ \A S \in SUBSET Searched : MaximalClique(S) => S \in YieldedSets
        /\ \A i, j \in 1..Len(cq.yielded) :
               Members(cq.yielded[i]) = Members(cq.yielded[j]) => i = j

----------------------------------------------------------------------------
(* Properties of a Spot *)

\* C25: spot[name] = region with a name that maps to another Region object
\* raises KeyError and leaves the name-to-region map as it was.
C25_NameKeepsItsRegion ==
    [][(/\ lastCall'.op = "spot_setitem"
        /\ lastCall'.args[2] \in RegionNames
        /\ lastCall'.args[1] \in SpotNames(spot)
        /\ SpotGet(spot, lastCall'.args[1]) # lastCall'.args[2])
          => /\ lastCall'.err = "KeyError"
             /\ spot'.getter = spot.getter]_vars

\* C23: once a query has asked for a cache, later calls return the same
\* grouping: the cache keeps the value that query left, whatever is added
\* to or deleted from the spot.
C23_CachesBuiltOnce ==
    [][/\ "ordered" \in spot.queried => spot'.uniqOrderedSet = spot.uniqOrderedSet
       /\ "content" \in spot.queried => spot'.uniqContent = spot.uniqContent]_vars


\* The regions of the spot, and the families of the contig a region holds
\* whole, in contig order.
InSpot == {SpotRegions(spot)[i] : i \in 1..Len(spot.getter)}
WholeSeq(r) ==
    [i \in 1..ContigLen(SpotContig[r]) |-> genome[SpotContig[r]].genes[i].family]
Mirrored(s, t) ==
    /\ Len(s) = Len(t)
    /\ \A i \in 1..Len(s) : s[i] = t[Len(t) + 1 - i]

\* The classes of a cache, and whether two regions share one.
Classes(cache) == {cache[j].members : j \in 1..Len(cache)}
SameClass(cache, a, b) == \E c \in Classes(cache) : a \in c /\ b \in c

RECURSIVE SumOf(_, _)
SumOf(cnt, S) ==
    IF S = {} THEN 0
    ELSE LET r == CHOOSE x \in S : TRUE IN cnt[r] + SumOf(cnt, S \ {r})

\* C21: for a spot filled before the first query, the unique-synteny
\* grouping partitions its regions: every region is in the class of exactly
\* one representative, two regions share a class iff their family sequences
\* are the same or mirror each other, get_uniq_ordered_set returns the
\* representatives, and count_uniq_ordered_set gives each representative the
\* size of its class, the counts adding up to the number of regions.
C21_SyntenyClassesPartition ==
    "ordered" \in spot.queried =>
        LET cache == spot.uniqOrderedSet
        IN  /\ \A r \in InSpot :
                  Cardinality({j \in 1..Len(cache) : r \in cache[j].members}) = 1
            /\ \A j \in 1..Len(cache) :
                  /\ cache[j].rep \in cache[j].members
                  /\ cache[j].members \subseteq InSpot
            /\ \A a, b \in InSpot :
                  SameClass(cache, a, b)
                      <=> (WholeSeq(a) = WholeSeq(b) \/ Mirrored(WholeSeq(a), WholeSeq(b)))
            /\ lastCall.op = "get_uniq_ordered_set" =>
                  /\ lastCall.ret = {cache[j].rep : j \in 1..Len(cache)}
                  /\ Cardinality(lastCall.ret) = Len(cache)
            /\ lastCall.op = "count_uniq_ordered_set" =>
                  /\ DOMAIN lastCall.ret = {cache[j].rep : j \in 1..Len(cache)}
                  /\ \A j \in 1..Len(cache) :
                        lastCall.ret[cache[j].rep] = Cardinality(cache[j].members)
                  /\ SumOf(lastCall.ret, DOMAIN lastCall.ret) = Len(spot.getter)

\* count_uniq_ordered_set has counted three regions in two classes, one of
\* them of two regions whose family sequences mirror each other and differ.
C21_Witness ==
    /\ lastCall.op = "count_uniq_ordered_set"
    /\ Len(spot.getter) = 3
    /\ Cardinality(DOMAIN lastCall.ret) = 2
    /\ \E a, b \in InSpot :
          /\ SameClass(spot.uniqOrderedSet, a, b)
          /\ WholeSeq(a) # WholeSeq(b)

\* The set of families a region holds.
FamilySet(r) == {WholeSeq(r)[i] : i \in 1..Len(WholeSeq(r))}

\* C22: for a spot filled before the first query, two regions share a class
\* of the unique-content grouping iff their sets of families are equal,
\* get_uniq_content returns one representative per family set and
\* count_uniq_content gives it the number of regions of that family set.
C22_ContentClassesByFamilySet ==
    "content" \in spot.queried =>
        LET cache == spot.uniqContent
        IN  /\ \A a, b \in InSpot :
                  SameClass(cache, a, b) <=> FamilySet(a) = FamilySet(b)
            /\ lastCall.op = "get_uniq_content" =>
                  Cardinality(lastCall.ret)
                      = Cardinality({FamilySet(r) : r \in InSpot})
            /\ lastCall.op = "count_uniq_content" =>
                  \A r \in DOMAIN lastCall.ret :
                      lastCall.ret[r]
                          = Cardinality({x \in InSpot : FamilySet(x) = FamilySet(r)})

\* The border families of a region of the spot for the arguments of the
\* last call, and whether two pairs are identical or swapped.
BorderPair(r) ==
    CurrSet(BorderingGenes(r, lastCall.args[1], lastCall.args[2]))
Swapped(p, q) == p = <<q[2], q[1]>>

RECURSIVE SumCounts(_, _)
SumCounts(family_borders, k) ==
    IF k = 0 THEN 0
    ELSE family_borders[k].count + SumCounts(family_borders, k - 1)

\* C24: Spot.borders returns one (count, border pair) entry per class of
\* regions whose border families are identical or swapped: no two entries
\* have identical or swapped pairs, each count is the number of regions of
\* the class, and the counts add up to the number of regions of the spot.
C24_BordersCountedByClass ==
    (lastCall.op = "borders" /\ lastCall.err = "none") =>
        LET ret == lastCall.ret
        IN  /\ \A i, j \in 1..Len(ret) :
                  i # j => /\ ret[i].borders # ret[j].borders
                           /\ ~Swapped(ret[i].borders, ret[j].borders)
            /\ \A i \in 1..Len(ret) :
                  ret[i].count =
                      Cardinality({r \in InSpot :
                                      \/ BorderPair(r) = ret[i].borders
                                      \/ Swapped(BorderPair(r), ret[i].borders)})
            /\ SumCounts(ret, Len(ret)) = Len(spot.getter)

\* borders has counted under one entry two regions whose border pairs are
\* swapped and differ, and returned a second entry.
C24_Witness ==
    /\ lastCall.op = "borders"
    /\ lastCall.err = "none"
    /\ Len(lastCall.ret) = 2
    /\ \E a, b \in InSpot :
          /\ BorderPair(a) # BorderPair(b)
          /\ Swapped(BorderPair(a), BorderPair(b))

----------------------------------------------------------------------------
(* Properties of a Module *)

\* C26: after any sequence of insertions, through the constructor's family
\* set or module[name] = family, every family a module holds in its
\* name-to-family map records that module among its modules.
C26_HeldFamiliesLinkBack ==
    \A m \in ModRefs : \A name \in DOMAIN modules[m].getter :
        m \in famModules[modules[m].getter[name]]

\* module[name] = family has stored a family under a name that is not its
\* own, in a module that now holds two families.
C26_Witness ==
    /\ lastCall.op = "module_setitem"
    /\ lastCall.err = "none"
    /\ \E m \in ModRefs :
          /\ Cardinality(DOMAIN modules[m].getter) = 2
          /\ \E name \in DOMAIN modules[m].getter :
                ModFamName[modules[m].getter[name]] # name

----------------------------------------------------------------------------
(* Properties of get_multigenics *)

\* C27: get_multigenics(threshold) returns exactly the persistent families
\* whose fraction of organisms with more than one member gene is the
\* threshold or more: a persistent family duplicated in 1 of its 10
\* organisms is returned for 0.05 and not for 0.5, and no shell, cloud or
\* unclassified family is returned.
C27_MultigenicsArePersistentDuplicated ==
    lastCall.op = "get_multigenics" =>
        LET t == lastCall.args[1]
        IN  /\ \A f \in DOMAIN gene_families :
                  LET fam == gene_families[f]
                  IN  /\ f \in lastCall.ret <=>
                            /\ fam.named_partition = "persistent"
                            /\ fam.multi * t[2] >= t[1] * (fam.single + fam.multi)
                      /\ (/\ fam.named_partition = "persistent"
                          /\ fam.multi = 1 /\ fam.single = 9)
                         => /\ t = <<1, 20>> => f \in lastCall.ret
                            /\ t = <<1, 2>> => f \notin lastCall.ret
                      /\ fam.named_partition # "persistent" => f \notin lastCall.ret
            /\ lastCall.ret \subseteq DOMAIN gene_families

\* With the threshold 0.1 the call returned a persistent family duplicated
\* in 1 of its 10 organisms and left out a shell family duplicated in all
\* of its organisms.
C27_Witness ==
    /\ lastCall.op = "get_multigenics"
    /\ lastCall.args[1] = <<1, 10>>
    /\ lastCall.ret = {"famA"}
    /\ gene_families["famA"].multi = 1
    /\ gene_families["famA"].single = 9
    /\ gene_families["famB"].named_partition = "shell"
    /\ gene_families["famB"].single = 0

----------------------------------------------------------------------------
(* Properties of the contig counter *)

\* The contigs created so far, as <<worker, rank>>, and their IDs.
Created == {c \in Workers \X (1..MaxNewContigs) : c[2] <= Len(workers[c[1]].contigs)}
ContigID(c) == workers[c[1]].contigs[c[2]]

\* C30: under every interleaving of the workers no two contigs have the
\* same ID, and when no worker is in the with block (at the end, then) the
\* counter is its initial value plus the number of contigs created.
C30_ContigIDsDistinct ==
    /\ \A c, d \in Created : ContigID(c) = ContigID(d) => c = d
    /\ (\A w \in Workers : workers[w].pc \in {"reading", "done"}) =>
          contig_counter.value = contig_counter.initial + Cardinality(Created)

\* Every worker has returned, and two of them created two contigs each in
\* turn: their with blocks alternated.
C30_Witness ==
    /\ \A w \in Workers : workers[w].pc = "done"
    /\ \E v, w \in Workers :
          /\ Len(workers[v].contigs) = 2
          /\ Len(workers[w].contigs) = 2
          /\ workers[v].contigs[1] < workers[w].contigs[1]
          /\ workers[w].contigs[1] < workers[v].contigs[2]
          /\ workers[v].contigs[2] < workers[w].contigs[2]
============================================================================
